---- MODULE Spec2Model ----
(***************************************************************************)
(* A model of the ChonkerInt big-integer library, the RSA block cipher     *)
(* built on it and the worker-pool brute-force engine of                   *)
(* crypto_bigint_rust.                                                     *)
(*                                                                         *)
(* A ChonkerInt is the record [digits, sign]: digits is the little-endian  *)
(* vector of decimal digits (index 1 is the least significant digit) and   *)
(* sign is one of "Positive", "Zero", "Negative".  Equality of ChonkerInts *)
(* is the derived PartialEq of the struct, i.e. equality of the records.   *)
(* A panic of the library is the value Panic.                              *)
(***************************************************************************)
EXTENDS Integers, Sequences, FiniteSets, TLC

VARIABLES
    a, b,          \* the operands of the arithmetic operation
    text,          \* the string or digit slice given to a conversion
    op,            \* the operation that was applied, "none" before
    res,           \* its result
    answer,        \* the result of an operation that returns no ChonkerInt
    request,       \* the arguments of a call of the function rsa
    key_modulus,   \* the modulus given to rsa_bruteforce
    key_exponent,  \* the public exponent given to rsa_bruteforce
    tasks,         \* the closures handed to ThreadPool::execute, in order
    channel,       \* the ThreadTask messages in flight to the workers
    lock,          \* the worker holding the Mutex of the receiver, 0 if none
    workers,       \* the position of every worker thread
    results,       \* the TaskResult messages in flight to the main thread
    main,          \* the position of the thread that owns the pool
    received,      \* the TaskResult taken by main_receiver.recv()
    executed,      \* for every closure, the outcomes of its runs so far
    key_pair,      \* the RsaKeyPair made by rsa_key_generation
    target,        \* the bytes of the plaintext given to rsa_encrypt
    encrypted,     \* the result of rsa_encrypt
    decrypted      \* the result of rsa_decrypt on the encrypted text

arithVars == <<a, b, text, op, res, answer, request>>

poolVars == <<key_modulus, key_exponent, tasks, channel, lock, workers, results, main, received, executed>>

rsaVars == <<key_pair, target, encrypted, decrypted>>

vars == <<a, b, text, op, res, answer, request, key_modulus, key_exponent, tasks, channel, lock, workers, results, main, received, executed, key_pair, target, encrypted, decrypted>>

-----------------------------------------------------------------------------
(* bigint.rs: representation and helpers *)

RADIX == 10

ChonkerInt_new == [digits |-> <<>>, sign |-> "Zero"]

Panic == [digits |-> <<>>, sign |-> "Panic"]

clip(digit) == digit % RADIX

\* a carry that is dropped
overflow_lost(digit) == 0

overflow(digit) == (digit - clip(digit)) \div RADIX

RECURSIVE normalize_digits(_)
normalize_digits(digits) ==
    IF digits = <<>> THEN digits
    ELSE IF digits[Len(digits)] = 0
         THEN normalize_digits(SubSeq(digits, 1, Len(digits) - 1))
         ELSE digits

normalize(x) == [x EXCEPT !.digits = normalize_digits(@)]

set_negative_sign(x) == [x EXCEPT !.sign = "Negative"]

set_positive_sign(x) == [x EXCEPT !.sign = "Positive"]

push(x, digit) ==
    IF digit \in 0..9 THEN [x EXCEPT !.digits = Append(@, digit)] ELSE x

push_vec(x, digits_slice) ==
    [digits |-> x.digits \o digits_slice,
     sign   |-> IF x = ChonkerInt_new THEN "Positive" ELSE x.sign]

reverse(s) == [i \in 1..Len(s) |-> s[Len(s) + 1 - i]]

-----------------------------------------------------------------------------
(* Every operation of the library is reached through call: call(f, x, y, z) *)
(* is the value of the operation named f on the operands x, y and z.  The    *)
(* operators below give the operations their names; the body of the         *)
(* operation f is the operator f_body.                                       *)

RECURSIVE call(_, _, _, _)

cmp(self, other) == call("cmp", self, other, 0)

from_int(int) == call("from_int", int, 0, 0)

neg(self) == call("neg", self, 0, 0)

add(self, other) == call("add", self, other, 0)

sub(self, other) == call("sub", self, other, 0)

mul(self, rhs) == call("mul", self, rhs, 0)

quotient_estimation_algorithm(dividend, divisor) == call("qea", dividend, divisor, 0)

div(self, rhs) == call("div", self, rhs, 0)

rem(self, rhs) == call("rem", self, rhs, 0)

pow(self, power) == call("pow", self, power, 0)

modpow(self, power, modulus) == call("modpow", self, power, modulus)

gcd(self, other) == call("gcd", self, other, 0)

egcd(self, other) == call("egcd", self, other, 0)

from_u64(int) == call("from_u64", int, 0, 0)

from_u128(int) == call("from_u128", int, 0, 0)

new_rand_range_value(start, end, sign) == call("new_rand_range_value", start, end, sign)

is_prime_probabilistic(self, number_of_trials) == call("is_prime_probabilistic", self, number_of_trials, 0)

is_coprime(self, other) == call("is_coprime", self, other, 0)

factor_rsa_modulus(self, iteration_start_point) == call("factor_rsa_modulus", self, iteration_start_point, 0)

is_prime(self) == call("is_prime", self, 0, 0)

factor(self) == call("factor", self, 0, 0)

prime_factor(self) == call("prime_factor", self, 0, 0)

is_primitive_root(self, prime) == call("is_primitive_root", self, prime, 0)

refused(modulus, thread_count) == call("refused", modulus, thread_count, 0)

new_prime(length) == call("new_prime", length, 0, 0)

key_pairs(prime_q, prime_p) == call("key_pairs", prime_q, prime_p, 0)

rsa_encrypt(bytes, exponent, modulus) == call("rsa_encrypt", bytes, exponent, modulus)

rsa_decrypt(hex_string, exponent, modulus) == call("rsa_decrypt", hex_string, exponent, modulus)

-----------------------------------------------------------------------------
(* comparison.rs *)

RECURSIVE cmp_digits(_, _, _)
cmp_digits(self_digits, other_digits, index) ==
    IF self_digits[index] < other_digits[index] THEN "Less"
    ELSE IF self_digits[index] > other_digits[index] THEN "Greater"
    ELSE IF index = 1 THEN "Equal"
    ELSE cmp_digits(self_digits, other_digits, index - 1)

ordering_determination(self, other, sign) ==
    LET flip(o) == IF sign = "Positive" THEN o
                   ELSE IF o = "Less" THEN "Greater"
                   ELSE IF o = "Greater" THEN "Less" ELSE o
    IN  IF Len(self.digits) < Len(other.digits) THEN flip("Less")
        ELSE IF Len(self.digits) > Len(other.digits) THEN flip("Greater")
        ELSE flip(cmp_digits(self.digits, other.digits, Len(self.digits)))

cmp_body(self, other) ==
    IF (self.digits = <<>> /\ other.digits = <<>>)
       \/ (self.sign = "Zero" /\ other.sign = "Zero")
    THEN "Equal"
    ELSE IF self.sign = other.sign
    THEN IF self.sign = "Zero" THEN "Equal"
         ELSE ordering_determination(self, other, self.sign)
    ELSE IF self.sign = "Negative" /\ other.sign \in {"Positive", "Zero"} THEN "Less"
    ELSE IF self.sign = "Positive" /\ other.sign \in {"Negative", "Zero"} THEN "Greater"
    ELSE IF self.sign = "Zero" /\ other.sign = "Positive" THEN "Less"
    ELSE IF self.sign = "Zero" /\ other.sign = "Negative" THEN "Greater"
    ELSE "Equal"

lt(x, y) == cmp(x, y) = "Less"

le(x, y) == cmp(x, y) # "Greater"

gt(x, y) == cmp(x, y) = "Greater"

ge(x, y) == cmp(x, y) # "Less"

-----------------------------------------------------------------------------
(* conversion.rs: From<integer>.  A native integer is a TLA+ integer; the  *)
(* base 10^k of digit_convert is carried as 10^k.                          *)

MAX_BASE_EXP == 38

\* the while loop of digit_convert, entered with base = 10^exp,
\* prev_base = 10^(exp-1) and prev_remainder = int % prev_base
RECURSIVE digit_convert_loop(_, _, _, _)
digit_convert_loop(int, exp, prev_remainder, result_vec) ==
    IF prev_remainder = int THEN result_vec
    ELSE LET base      == 10 ^ exp
             prev_base == 10 ^ (exp - 1)
             remainder == int % base
             digit     == (remainder - prev_remainder) \div prev_base
             pushed    == Append(result_vec, digit)
         IN  IF exp = MAX_BASE_EXP
             THEN Append(pushed, (int - remainder) \div base)
             ELSE digit_convert_loop(int, exp + 1, remainder, pushed)

digit_convert(int) == digit_convert_loop(int, 2, int % 10, <<int % 10>>)

digit_vector_produce(int, sign) ==
    [digits |-> IF int = 0 THEN <<>> ELSE digit_convert(int), sign |-> sign]

generic_from_unsigned_integer(int) ==
    IF int = 0 THEN ChonkerInt_new ELSE digit_vector_produce(int, "Positive")

generic_from_signed_integer(int) ==
    IF int = 0 THEN ChonkerInt_new
    ELSE digit_vector_produce(IF int < 0 THEN -int ELSE int,
                              IF int < 0 THEN "Negative" ELSE "Positive")

-----------------------------------------------------------------------------
(* negation.rs *)

neg_body(self) ==
    CASE self.sign = "Negative" -> [digits |-> self.digits, sign |-> "Positive"]
      [] self.sign = "Positive" -> [digits |-> self.digits, sign |-> "Negative"]
      [] OTHER -> ChonkerInt_new

-----------------------------------------------------------------------------
(* addition.rs and subtraction.rs *)

\* the loop `while offset < length { add_digits(..) }`: st = [digits, carry]
RECURSIVE add_digits(_, _, _, _, _)
add_digits(one_vec, other_vec, offset, length, st) ==
    IF offset > length THEN st
    ELSE LET sum == one_vec[offset] + other_vec[offset] + st.carry
         IN  add_digits(one_vec, other_vec, offset + 1, length,
                        [digits |-> Append(st.digits, clip(sum)), carry |-> overflow(sum)])

RECURSIVE add_digit_and_overflow(_, _, _, _)
add_digit_and_overflow(one_vec, offset, length, st) ==
    IF offset > length THEN st
    ELSE LET sum == one_vec[offset] + st.carry
         IN  add_digit_and_overflow(one_vec, offset + 1, length,
                        [digits |-> Append(st.digits, clip(sum)), carry |-> overflow(sum)])

RECURSIVE subtract_digits(_, _, _, _, _)
subtract_digits(minuend_vec, subtrahend_vec, offset, length, st) ==
    IF offset > length THEN st
    ELSE LET difference == minuend_vec[offset] - subtrahend_vec[offset] - st.carry
         IN  subtract_digits(minuend_vec, subtrahend_vec, offset + 1, length,
                 IF difference < 0
                 THEN [digits |-> Append(st.digits, difference + RADIX), carry |-> 1]
                 ELSE [digits |-> Append(st.digits, difference), carry |-> 0])

RECURSIVE subtract_digit_and_underflow(_, _, _, _)
subtract_digit_and_underflow(one_vec, offset, length, st) ==
    IF offset > length THEN st
    ELSE LET difference == one_vec[offset] - st.carry
         IN  subtract_digit_and_underflow(one_vec, offset + 1, length,
                 IF difference < 0
                 THEN [digits |-> Append(st.digits, difference + RADIX), carry |-> 1]
                 ELSE [digits |-> Append(st.digits, difference), carry |-> 0])

\* the digit loops of add for two operands of Positive sign
add_positive(self, other) ==
    LET start == [digits |-> <<>>, carry |-> 0]
        long  == IF ge(self, other) THEN self.digits ELSE other.digits
        short == IF ge(self, other) THEN other.digits ELSE self.digits
        low   == add_digits(self.digits, other.digits, 1, Len(short), start)
        high  == add_digit_and_overflow(long, Len(short) + 1, Len(long), low)
    IN  [digits |-> IF high.carry > 0 THEN Append(high.digits, high.carry) ELSE high.digits,
         sign   |-> "Positive"]

\* the digit loops of sub for two operands of Positive sign
sub_positive(self, other) ==
    LET start == [digits |-> <<>>, carry |-> 0]
        order == cmp(self, other)
    IN  IF order = "Equal" THEN ChonkerInt_new
        ELSE LET minuend    == IF order = "Less" THEN other.digits ELSE self.digits
                 subtrahend == IF order = "Less" THEN self.digits ELSE other.digits
                 low  == subtract_digits(minuend, subtrahend, 1, Len(subtrahend), start)
                 high == subtract_digit_and_underflow(minuend, Len(subtrahend) + 1,
                                                      Len(minuend), low)
             IN  normalize([digits |-> high.digits,
                            sign   |-> IF order = "Less" THEN "Negative" ELSE "Positive"])

add_body(self, other) ==
    IF self.sign = "Zero" THEN other
    ELSE IF other.sign = "Zero" THEN self
    ELSE IF self.sign # other.sign
         THEN IF self.sign = "Positive" THEN sub(self, neg(other))
                                        ELSE sub(other, neg(self))
    ELSE IF self.sign = "Negative" THEN neg(add(neg(self), neg(other)))
    ELSE add_positive(self, other)

sub_body(self, other) ==
    IF self.sign = "Zero" /\ other.sign \in {"Negative", "Positive"} THEN neg(other)
    ELSE IF other.sign = "Zero" THEN self
    ELSE IF self.sign # other.sign
         THEN IF self.sign = "Positive" THEN add(self, neg(other))
                                        ELSE neg(add(neg(self), other))
    ELSE IF self.sign = "Negative" THEN neg(sub(neg(self), neg(other)))
    ELSE sub_positive(self, other)

-----------------------------------------------------------------------------
(* multiplication.rs *)

\* one partial product: self times the digit rhs_digit, st = [digits, carry]
RECURSIVE partial_product(_, _, _, _)
partial_product(self_digits, rhs_digit, self_offset, st) ==
    IF self_offset > Len(self_digits) THEN st
    ELSE LET partial_product_digit == self_digits[self_offset] * rhs_digit + st.carry
         IN  partial_product(self_digits, rhs_digit, self_offset + 1,
                 [digits |-> Append(st.digits, clip(partial_product_digit)),
                  carry  |-> overflow(partial_product_digit)])

\* a multiplication whose partial products are not shifted by the offset of
\* the digit of rhs
RECURSIVE mul_loop_unshifted(_, _, _, _)
mul_loop_unshifted(self, rhs, rhs_offset, result) ==
    IF rhs_offset > Len(rhs.digits) THEN result
    ELSE LET pp == partial_product(self.digits, rhs.digits[rhs_offset], 1,
                                   [digits |-> <<>>, carry |-> 0])
             partial_product_bigint ==
                 [digits |-> IF pp.carry > 0 THEN Append(pp.digits, pp.carry) ELSE pp.digits,
                  sign   |-> "Positive"]
         IN  mul_loop_unshifted(self, rhs, rhs_offset + 1, add(result, partial_product_bigint))

RECURSIVE mul_loop(_, _, _, _)
mul_loop(self, rhs, rhs_offset, result) ==
    IF rhs_offset > Len(rhs.digits) THEN result
    ELSE LET shifted == [i \in 1..(rhs_offset - 1) |-> 0]
             pp      == partial_product(self.digits, rhs.digits[rhs_offset], 1,
                                        [digits |-> shifted, carry |-> 0])
             partial_product_bigint ==
                 [digits |-> IF pp.carry > 0 THEN Append(pp.digits, pp.carry) ELSE pp.digits,
                  sign   |-> "Positive"]
         IN  mul_loop(self, rhs, rhs_offset + 1, add(result, partial_product_bigint))

mul_body(self, rhs) ==
    LET positive_one == generic_from_signed_integer(1)
        negative_one == generic_from_signed_integer(-1)
        flipped(x)   == IF x.sign = "Positive" THEN set_negative_sign(x)
                        ELSE IF x.sign = "Negative" THEN set_positive_sign(x)
                        ELSE Panic
    IN  IF self.sign = "Zero" \/ rhs.sign = "Zero" THEN ChonkerInt_new
        ELSE IF self = positive_one THEN rhs
        ELSE IF self = negative_one THEN flipped(rhs)
        ELSE IF rhs = positive_one THEN self
        ELSE IF rhs = negative_one THEN flipped(self)
        ELSE LET result == mul_loop(self, rhs, 1, ChonkerInt_new)
             IN  IF self.sign # rhs.sign THEN set_negative_sign(result) ELSE result

-----------------------------------------------------------------------------
(* division.rs *)

from_int_body(int) == generic_from_signed_integer(int)

PanicPair == [quotient |-> Panic, remainder |-> Panic]

\* a quotient_estimation_algorithm that trusts its first estimate
quotient_reduction_skipped(quotient, check, dividend_original, divisor_original, delta) ==
    quotient

\* the loop `for delta in 0..=3` of quotient_estimation_algorithm; the value
\* is the corrected quotient, or Panic after a fourth reduction
RECURSIVE quotient_reduction(_, _, _, _, _)
quotient_reduction(quotient, check, dividend_original, divisor_original, delta) ==
    \* check is check_quotient_product
    IF delta > 3 THEN quotient
    ELSE IF quotient = ChonkerInt_new THEN quotient
    ELSE IF le(set_positive_sign(check), dividend_original) THEN quotient
    ELSE IF delta = 3 THEN Panic
    ELSE quotient_reduction(sub(quotient, from_int(1)),
                            sub(set_positive_sign(check), divisor_original),
                            dividend_original, divisor_original, delta + 1)

\* an estimate from the leading digit of the dividend alone
quotient_estimate_one_digit(dividend, divisor) ==
    dividend.digits[Len(dividend.digits)] \div divisor.digits[Len(divisor.digits)]

quotient_estimate(dividend, divisor) ==
    LET dividend_length == Len(dividend.digits)
        divisor_length  == Len(divisor.digits)
    IN  IF dividend_length = divisor_length + 1
        THEN (dividend.digits[dividend_length] * RADIX
              + dividend.digits[dividend_length - 1]) \div divisor.digits[divisor_length]
        ELSE dividend.digits[dividend_length] \div divisor.digits[divisor_length]

quotient_estimation_algorithm_body(dividend_arg, divisor_arg) ==
    LET dividend_original == set_positive_sign(dividend_arg)
        divisor_original  == set_positive_sign(divisor_arg)
        coefficient == RADIX \div (divisor_original.digits[Len(divisor_original.digits)] + 1)
        dividend == IF coefficient > 1 THEN mul(dividend_original, from_int(coefficient))
                                       ELSE dividend_original
        divisor  == IF coefficient > 1 THEN mul(divisor_original, from_int(coefficient))
                                       ELSE divisor_original
    IN  IF Len(dividend.digits) # Len(divisor.digits) + 1
           /\ Len(dividend.digits) # Len(divisor.digits)
        THEN PanicPair
        ELSE LET estimate == from_int(quotient_estimate(dividend, divisor))
                 quotient == quotient_reduction(estimate, mul(estimate, divisor_original),
                                                dividend_original, divisor_original, 0)
             IN  IF quotient = Panic THEN PanicPair
                 ELSE [quotient  |-> IF quotient = ChonkerInt_new
                                     THEN [quotient EXCEPT !.digits = <<0>>]
                                     ELSE quotient,
                       remainder |-> sub(dividend_original, mul(quotient, divisor_original))]

\* `if quotient_digit.digits.len() > 1 { quotient_digit.digits.reverse() }`
quotient_digit_digits(quotient_digit) ==
    IF Len(quotient_digit.digits) > 1 THEN reverse(quotient_digit.digits)
                                      ELSE quotient_digit.digits

\* length of the first window of the dividend
cut_difference(self, rhs) ==
    IF self.digits[Len(self.digits)] > rhs.digits[Len(rhs.digits)]
       \/ gt(set_positive_sign(self), set_positive_sign(rhs))
    THEN Len(rhs.digits) ELSE Len(rhs.digits) + 1

\* `for digit in cut_dividend_splice.iter().rev() { cut_dividend.digits.insert(0, *digit) }`
\* followed by set_positive_sign and normalize
next_cut_dividend(self, cut_dividend, dividend_index) ==
    normalize([digits |-> <<self.digits[dividend_index]>> \o cut_dividend.digits,
               sign   |-> "Positive"])

\* the loop `while dividend_index > 0` of div; the quotient is big-endian here
RECURSIVE div_loop(_, _, _, _, _)
div_loop(self, rhs, quotient, cut_dividend, dividend_index) ==
    IF dividend_index = 0 THEN quotient
    ELSE LET cut == next_cut_dividend(self, cut_dividend, dividend_index)
         IN  IF lt(cut, set_positive_sign(rhs))
             THEN div_loop(self, rhs, push(quotient, 0), cut, dividend_index - 1)
             ELSE LET qr == quotient_estimation_algorithm(cut, rhs)
                  IN  IF qr = PanicPair THEN Panic
                      ELSE div_loop(self, rhs,
                                    push_vec(quotient, quotient_digit_digits(qr.quotient)),
                                    qr.remainder, dividend_index - 1)

div_long(self, rhs) ==
    IF Len(self.digits) > Len(rhs.digits)
    THEN LET dividend_index == Len(self.digits)
             difference     == cut_difference(self, rhs)
             cut_dividend   == [digits |-> SubSeq(self.digits, dividend_index - difference + 1,
                                                  dividend_index),
                                sign   |-> "Positive"]
             qr == quotient_estimation_algorithm(cut_dividend, rhs)
         IN  IF qr = PanicPair THEN Panic
             ELSE LET quotient == div_loop(self, rhs,
                                      push_vec(ChonkerInt_new, quotient_digit_digits(qr.quotient)),
                                      qr.remainder, dividend_index - difference)
                  IN  IF quotient = Panic THEN Panic
                      ELSE [quotient EXCEPT !.digits = reverse(@)]
    ELSE LET qr == quotient_estimation_algorithm(self, rhs)
         IN  IF qr = PanicPair THEN Panic
             ELSE push_vec(ChonkerInt_new, qr.quotient.digits)

div_body(self, rhs) ==
    LET absolute_dividend == set_positive_sign(self)
        absolute_divisor  == set_positive_sign(rhs)
    IN  IF rhs = ChonkerInt_new \/ rhs.digits = <<>> THEN Panic
        ELSE IF self = ChonkerInt_new \/ self.digits = <<>> THEN ChonkerInt_new
        ELSE IF lt(absolute_dividend, absolute_divisor) THEN ChonkerInt_new
        ELSE IF self = rhs /\ self = absolute_divisor THEN from_int(1)
        ELSE IF self # rhs /\ self = absolute_divisor THEN from_int(-1)
        ELSE IF self = rhs /\ self # absolute_divisor THEN from_int(1)
        ELSE IF self # rhs /\ absolute_dividend = rhs THEN from_int(-1)
        ELSE LET quotient == div_long(self, rhs)
             IN  IF quotient = Panic THEN Panic
                 ELSE normalize(IF quotient.digits # <<>>
                                THEN IF self.sign # rhs.sign THEN set_negative_sign(quotient)
                                                             ELSE set_positive_sign(quotient)
                                ELSE quotient)

-----------------------------------------------------------------------------
(* modulus.rs *)

\* the loop `while dividend_index > 0` of rem
RECURSIVE rem_loop(_, _, _, _)
rem_loop(self, rhs, cut_dividend, dividend_index) ==
    IF dividend_index = 0 THEN cut_dividend
    ELSE LET cut == next_cut_dividend(self, cut_dividend, dividend_index)
         IN  IF lt(cut, set_positive_sign(rhs))
             THEN rem_loop(self, rhs, cut, dividend_index - 1)
             ELSE LET qr == quotient_estimation_algorithm(cut, rhs)
                  IN  IF qr = PanicPair THEN Panic
                      ELSE rem_loop(self, rhs, qr.remainder, dividend_index - 1)

rem_long(self, rhs) ==
    IF Len(self.digits) > Len(rhs.digits)
    THEN LET dividend_index == Len(self.digits)
             difference     == cut_difference(self, rhs)
             cut_dividend   == [digits |-> SubSeq(self.digits, dividend_index - difference + 1,
                                                  dividend_index),
                                sign   |-> "Positive"]
             qr == quotient_estimation_algorithm(cut_dividend, rhs)
         IN  IF qr = PanicPair THEN Panic
             ELSE rem_loop(self, rhs, qr.remainder, dividend_index - difference)
    ELSE quotient_estimation_algorithm(self, rhs).remainder

\* the sign adjustment at the end of rem
rem_sign(self, rhs, remainder) ==
    IF remainder # ChonkerInt_new
    THEN IF self.sign = "Negative" /\ rhs.sign = "Positive"
         THEN add(set_negative_sign(remainder), rhs)
         ELSE IF self.sign = "Positive" /\ rhs.sign = "Negative"
         THEN add(remainder, rhs)
         ELSE IF self.sign = "Negative" /\ rhs.sign = "Negative"
         THEN set_negative_sign(remainder)
         ELSE remainder
    ELSE remainder

rem_body(self, rhs) ==
    LET absolute_dividend == set_positive_sign(self)
        absolute_divisor  == set_positive_sign(rhs)
    IN  IF rhs = ChonkerInt_new \/ rhs.digits = <<>> THEN Panic
        ELSE IF self = ChonkerInt_new \/ self.digits = <<>> THEN ChonkerInt_new
        ELSE IF lt(absolute_dividend, absolute_divisor)
        THEN IF (self.sign = "Negative" /\ rhs.sign = "Positive")
                \/ (self.sign = "Positive" /\ rhs.sign = "Negative")
             THEN add(rhs, self)
             ELSE self
        ELSE LET remainder == rem_long(self, rhs)
             IN  IF remainder = Panic THEN Panic
                 ELSE normalize(rem_sign(self, rhs, remainder))

-----------------------------------------------------------------------------
(* exponentiation.rs *)

RECURSIVE pow_loop(_, _, _)
pow_loop(result, base, power) ==
    IF ~gt(power, ChonkerInt_new) THEN result
    ELSE pow_loop(IF rem(power, from_int(2)) = from_int(1) THEN mul(result, base) ELSE result,
                  mul(base, base),
                  div(power, from_int(2)))

pow_body(self, power) ==
    IF self = ChonkerInt_new THEN ChonkerInt_new
    ELSE IF power = ChonkerInt_new THEN from_int(1)
    ELSE IF power = from_int(1) THEN self
    ELSE IF gt(power, ChonkerInt_new) THEN pow_loop(from_int(1), self, power)
    ELSE IF lt(power, ChonkerInt_new) THEN ChonkerInt_new
    ELSE from_int(1)

RECURSIVE modpow_loop(_, _, _, _)
modpow_loop(result, base, power, modulus) ==
    LET odd_result == IF rem(power, from_int(2)) = from_int(1)
                      THEN rem(mul(result, base), modulus)
                      ELSE result
    IN  IF power = from_int(1) THEN odd_result
        ELSE modpow_loop(odd_result, rem(mul(base, base), modulus),
                         div(power, from_int(2)), modulus)

modpow_body(self, power, modulus) ==
    IF self = ChonkerInt_new THEN ChonkerInt_new
    ELSE IF rem(self, modulus) = Panic THEN Panic
    ELSE IF power = ChonkerInt_new THEN from_int(1)
    ELSE IF power = from_int(1) THEN self
    ELSE IF gt(power, ChonkerInt_new)
         THEN modpow_loop(from_int(1), rem(self, modulus), power, modulus)
    ELSE IF lt(power, ChonkerInt_new) THEN ChonkerInt_new
    ELSE from_int(1)

-----------------------------------------------------------------------------
(* gcd.rs *)

gcd_body(self, other) ==
    IF self = ChonkerInt_new \/ self.digits = <<>> THEN other
    ELSE IF other = ChonkerInt_new \/ other.digits = <<>> THEN self
    ELSE LET first_operand  == set_positive_sign(self)
             second_operand == set_positive_sign(other)
         IN  IF lt(first_operand, second_operand) THEN gcd(second_operand, first_operand)
             ELSE IF rem(first_operand, second_operand) = ChonkerInt_new THEN second_operand
             ELSE gcd(second_operand, rem(first_operand, second_operand))

\* the loop `while gcd_r != big_zero` of egcd
RECURSIVE egcd_loop(_, _, _, _, _, _)
egcd_loop(gcd_r_old, gcd_r, self_xs_old, self_xs, other_yt_old, other_yt) ==
    IF gcd_r = ChonkerInt_new
    THEN [gcd |-> gcd_r_old, self_x |-> self_xs_old, other_y |-> other_yt_old]
    ELSE LET quotient == div(gcd_r_old, gcd_r)
         IN  egcd_loop(gcd_r, sub(gcd_r_old, mul(quotient, gcd_r)),
                       self_xs, sub(self_xs_old, mul(quotient, self_xs)),
                       other_yt, sub(other_yt_old, mul(quotient, other_yt)))

egcd_body(self, other) ==
    IF self = ChonkerInt_new
    THEN [gcd |-> other, self_x |-> ChonkerInt_new, other_y |-> from_int(1)]
    ELSE IF other = ChonkerInt_new
    THEN [gcd |-> self, self_x |-> ChonkerInt_new, other_y |-> from_int(1)]
    ELSE egcd_loop(set_positive_sign(self), set_positive_sign(other),
                   from_int(1), ChonkerInt_new, ChonkerInt_new, from_int(1))

-----------------------------------------------------------------------------
(* randomisation.rs.  A random choice is the set of the values it can     *)
(* yield: new_rand_range_len can yield every digit vector of a length in  *)
(* start..end whose most significant digit is not 0, and the loop of      *)
(* new_rand_range_value draws again until the value is within the range.  *)

new_rand_range_len(start, end, sign) ==
    {[digits |-> generic_from_unsigned_integer(i).digits, sign |-> sign] : i \in (10 ^ (start - 1))..(10 ^ end - 1)}

new_rand_range_value_body(start, end, sign) ==
    IF start = ChonkerInt_new \/ end = ChonkerInt_new THEN {Panic}
    ELSE IF lt(start, ChonkerInt_new) \/ lt(end, ChonkerInt_new) THEN {Panic}
    ELSE IF ge(start, end) THEN {Panic}
    ELSE IF sign = "Zero" THEN {Panic}
    ELSE {[bigint EXCEPT !.sign = sign] :
             bigint \in {drawn \in new_rand_range_len(Len(start.digits), Len(end.digits), "Positive") :
                             ge(drawn, start) /\ le(drawn, end)}}

-----------------------------------------------------------------------------
(* prime.rs.  is_prime_probabilistic draws its bases at random, so its    *)
(* value is the set of the answers it can give: "true", "false", and      *)
(* "panic" where the draw of a base panics.                               *)

\* the loop `while &d % &big_two == big_one`
RECURSIVE miller_rabin_decompose(_, _)
miller_rabin_decompose(d, s) ==
    IF rem(d, from_int(2)) = from_int(1)
    THEN miller_rabin_decompose(div(d, from_int(2)), add(s, from_int(1)))
    ELSE [d |-> d, s |-> s]

\* the loop `while s_clone > big_zero`: TRUE when it continues 'outer
RECURSIVE squaring_loop(_, _, _, _)
squaring_loop(trial_result, s_clone, target_original, target_one) ==
    IF ~gt(s_clone, ChonkerInt_new) THEN FALSE
    ELSE LET squared == modpow(trial_result, from_int(2), target_original)
         IN  IF squared = target_one THEN TRUE
             ELSE squaring_loop(squared, sub(s_clone, from_int(1)), target_original, target_one)

\* one trial with the given base: TRUE when the trial is passed
trial(base, d, s, target_original, target_one) ==
    LET trial_result == modpow(base, d, target_original)
    IN  IF trial_result = from_int(1) \/ trial_result = target_one THEN TRUE
        ELSE squaring_loop(trial_result, s, target_original, target_one)

\* the loop 'outer over the trials that are left; trials is the set of the
\* outcomes one trial can have
RECURSIVE witness_loop(_, _)
witness_loop(trials, iterations_left) ==
    IF iterations_left = 0 THEN {"true"}
    ELSE UNION {IF passed = "panic" THEN {"panic"}
                ELSE IF passed = "true" THEN witness_loop(trials, iterations_left - 1)
                ELSE {"false"} : passed \in trials}

is_prime_probabilistic_body(self, number_of_trials) ==
    IF self = from_int(1) \/ self = ChonkerInt_new \/ self.sign = "Zero" \/ self.sign = "Negative"
    THEN {"false"}
    ELSE IF self = from_int(2) \/ self = from_int(3) THEN {"true"}
    ELSE IF rem(self, from_int(2)) = ChonkerInt_new \/ rem(self, from_int(3)) = ChonkerInt_new
    THEN {"false"}
    ELSE LET target_one == sub(self, from_int(1))
             ds         == miller_rabin_decompose(target_one, ChonkerInt_new)
             bases      == new_rand_range_value(from_int(2), sub(self, from_int(2)), "Positive")
             trials     == {IF base = Panic THEN "panic"
                            ELSE IF trial(base, ds.d, ds.s, self, target_one) THEN "true"
                            ELSE "false" : base \in bases}
         IN  witness_loop(trials, number_of_trials)

is_coprime_body(self, other) == gcd(self, other) = from_int(1)

-----------------------------------------------------------------------------
(* factor.rs.  factor_rsa_modulus is the set of the results it can have,  *)
(* each [panicked, factor_list].                                          *)

Panicked(message) == [panicked |-> TRUE, message |-> message, factor_list |-> <<>>]

Returned(factor_list) == [panicked |-> FALSE, message |-> "", factor_list |-> factor_list]

starting_point_incorrect == "the provided starting point for factor candidate calculation is incorrect"

target_incorrect == "the provided target for factorisation is incorrect"

factor_composite == "the generated factor of the target is a composite number"

random_range_incorrect == "incorrect boundaries for the random BigInt generation"

\* Vec::sort of a vector of at most two ChonkerInts
sort(factor_list) ==
    IF Len(factor_list) = 2 /\ gt(factor_list[1], factor_list[2])
    THEN <<factor_list[2], factor_list[1]>>
    ELSE factor_list

\* the loop `while (factor_candidate.pow(&big_two)) <= absolute_target`
RECURSIVE factor_loop(_, _, _)
factor_loop(self, absolute_target, factor_candidate) ==
    IF ~le(pow(factor_candidate, from_int(2)), absolute_target) THEN {Returned(sort(<<>>))}
    ELSE LET next_candidate == factor_loop(self, absolute_target, add(factor_candidate, from_int(2)))
             factor_other   == div(self, factor_candidate)
             found          == UNION {IF other_prime = "true"
                                      THEN {Returned(sort(<<factor_candidate, factor_other>>))}
                                      ELSE IF other_prime = "false" THEN {Panicked(factor_composite)}
                                      ELSE {Panicked(random_range_incorrect)} :
                                         other_prime \in is_prime_probabilistic(factor_other, 2)}
         IN  UNION {IF candidate_prime = "panic" THEN {Panicked(random_range_incorrect)}
                    ELSE IF candidate_prime = "false" THEN next_candidate
                    ELSE IF rem(self, factor_candidate) = ChonkerInt_new THEN found
                    ELSE next_candidate : candidate_prime \in is_prime_probabilistic(factor_candidate, 1)}

factor_rsa_modulus_body(self, iteration_start_point) ==
    LET absolute_target == set_positive_sign(self)
        second_factor   == div(self, from_int(2))
        first_candidate == IF rem(iteration_start_point, from_int(2)) = ChonkerInt_new
                           THEN add(iteration_start_point, from_int(1))
                           ELSE iteration_start_point
        searched        == factor_loop(self, absolute_target, first_candidate)
        even_target     == UNION {IF second_prime = "panic" THEN {Panicked(random_range_incorrect)}
                                  ELSE IF second_prime = "true"
                                  THEN {Returned(sort(<<from_int(2), second_factor>>))}
                                  ELSE searched :
                                     second_prime \in is_prime_probabilistic(second_factor, 2)}
    IN  IF iteration_start_point = ChonkerInt_new \/ iteration_start_point.sign = "Negative"
        THEN {Panicked(starting_point_incorrect)}
        ELSE IF self = ChonkerInt_new \/ self = from_int(1) \/ self = from_int(2)
        THEN {Panicked(target_incorrect)}
        ELSE UNION {IF target_prime = "panic" THEN {Panicked(random_range_incorrect)}
                    ELSE IF target_prime = "true" THEN {Panicked(target_incorrect)}
                    ELSE IF rem(self, from_int(2)) = ChonkerInt_new THEN even_target
                    ELSE searched : target_prime \in is_prime_probabilistic(self, 2)}

-----------------------------------------------------------------------------
(* prime.rs: is_prime *)

\* the loop `while (&factor * &factor) <= (*self)`
RECURSIVE is_prime_loop(_, _)
is_prime_loop(self, candidate) ==
    IF ~le(mul(candidate, candidate), self) THEN TRUE
    ELSE IF rem(self, candidate) = ChonkerInt_new \/ rem(self, add(candidate, from_int(2))) = ChonkerInt_new THEN FALSE
    ELSE is_prime_loop(self, add(candidate, from_int(6)))

is_prime_body(self) ==
    IF self = from_int(1) \/ self = ChonkerInt_new \/ self.sign = "Zero" \/ self.sign = "Negative" THEN FALSE
    ELSE IF self = from_int(2) \/ self = from_int(3) THEN TRUE
    ELSE IF rem(self, from_int(2)) = ChonkerInt_new \/ rem(self, from_int(3)) = ChonkerInt_new THEN FALSE
    ELSE is_prime_loop(self, from_int(5))

-----------------------------------------------------------------------------
(* factor.rs: factor.  The primality test of factor draws its bases at     *)
(* random, so factor is the set of the vectors it can return; <<Panic>>    *)
(* stands for a panic.                                                     *)

\* Vec::sort, which orders by Ord::cmp and keeps the order of equal elements
RECURSIVE insert_sorted(_, _)
insert_sorted(sorted, element) ==
    IF sorted = <<>> THEN <<element>>
    ELSE IF gt(Head(sorted), element) THEN <<element>> \o sorted
    ELSE <<Head(sorted)>> \o insert_sorted(Tail(sorted), element)

RECURSIVE sort_vec(_)
sort_vec(list) ==
    IF list = <<>> THEN <<>> ELSE insert_sorted(sort_vec(SubSeq(list, 1, Len(list) - 1)), list[Len(list)])

\* the loop `while (factor_candidate.pow(&big_two)) <= absolute_target` of
\* factor
RECURSIVE divisor_loop(_, _, _, _, _)
divisor_loop(self, absolute_target, factor_candidate, iterator, factor_list) ==
    IF ~le(pow(factor_candidate, from_int(2)), absolute_target) THEN factor_list
    ELSE LET factor_other == div(self, factor_candidate)
             pushed == IF rem(self, factor_candidate) = ChonkerInt_new
                       THEN IF factor_other # factor_candidate
                            THEN factor_list \o <<factor_candidate, factor_other>>
                            ELSE Append(factor_list, factor_candidate)
                       ELSE factor_list
         IN  divisor_loop(self, absolute_target, add(factor_candidate, iterator), iterator, pushed)

\* factor once the primality test has answered false
factor_composite_target(self) ==
    LET absolute_target == set_positive_sign(self)
        factor_list == IF rem(self, from_int(2)) = ChonkerInt_new
                       THEN divisor_loop(self, absolute_target, from_int(3), from_int(1), <<from_int(1), from_int(2), div(self, from_int(2)), self>>)
                       ELSE divisor_loop(self, absolute_target, from_int(3), from_int(2), <<from_int(1), self>>)
    IN  IF self.sign = "Negative"
        THEN sort_vec(factor_list \o [i \in 1..Len(factor_list) |-> neg(factor_list[i])])
        ELSE sort_vec(factor_list)

factor_body(self) ==
    IF self = ChonkerInt_new THEN {<<>>}
    ELSE IF self = from_int(1) THEN {<<from_int(1)>>}
    ELSE IF self = from_int(-1) THEN {<<from_int(-1)>>}
    ELSE {IF prime = "true" THEN <<>>
          ELSE IF prime = "panic" THEN <<Panic>>
          ELSE factor_composite_target(self) : prime \in is_prime_probabilistic(self, 2)}

-----------------------------------------------------------------------------
(* factor.rs: prime_factor, the set of the vectors it can return *)

\* the loop `while (&target % &big_two) == big_zero`
RECURSIVE twos_loop(_, _)
twos_loop(remaining, factor_list) ==
    IF rem(remaining, from_int(2)) = ChonkerInt_new
    THEN twos_loop(div(remaining, from_int(2)), Append(factor_list, from_int(2)))
    ELSE [target |-> remaining, factor_list |-> factor_list]

\* the loop `while (&target % &factor_candidate) == big_zero`
RECURSIVE candidate_loop(_, _, _)
candidate_loop(remaining, factor_candidate, factor_list) ==
    IF rem(remaining, factor_candidate) = ChonkerInt_new
    THEN candidate_loop(div(remaining, factor_candidate), factor_candidate, Append(factor_list, factor_candidate))
    ELSE [target |-> remaining, factor_list |-> factor_list]

\* the loop `while (factor_candidate.pow(&big_two)) <= target`
RECURSIVE odd_loop(_, _, _)
odd_loop(remaining, factor_candidate, factor_list) ==
    IF ~le(pow(factor_candidate, from_int(2)), remaining)
    THEN [target |-> remaining, factor_list |-> factor_list]
    ELSE LET divided == candidate_loop(remaining, factor_candidate, factor_list)
         IN  odd_loop(divided.target, add(factor_candidate, from_int(2)), divided.factor_list)

\* prime_factor once the primality test has answered false
prime_factor_composite_target(self) ==
    LET twos == twos_loop(self, <<>>)
        odds == odd_loop(twos.target, from_int(3), twos.factor_list)
    IN  IF gt(odds.target, from_int(2)) THEN Append(odds.factor_list, odds.target) ELSE odds.factor_list

prime_factor_body(self) ==
    IF self.sign = "Negative" THEN {<<>>}
    ELSE IF self = ChonkerInt_new THEN {<<>>}
    ELSE IF self = from_int(1) THEN {<<from_int(1)>>}
    ELSE IF self = from_int(-1) THEN {<<from_int(-1)>>}
    ELSE {IF prime = "true" THEN <<>>
          ELSE IF prime = "panic" THEN <<Panic>>
          ELSE prime_factor_composite_target(self) : prime \in is_prime_probabilistic(self, 2)}

-----------------------------------------------------------------------------
(* prime.rs: is_primitive_root, the set of the answers it can give: "true", *)
(* "false", and "panic"                                                     *)

\* Vec::dedup, which removes consecutive repeated elements
RECURSIVE dedup(_)
dedup(list) ==
    IF Len(list) < 2 THEN list
    ELSE IF list[1] = list[2] THEN dedup(Tail(list))
    ELSE <<Head(list)>> \o dedup(Tail(list))

\* the tests of is_primitive_root for one vector of prime factors
is_primitive_root_for(self, prime, prime_factor_list) ==
    LET target_one == sub(prime, from_int(1))
    IN  IF modpow(self, target_one, prime) # from_int(1) THEN "false"
        ELSE IF \E i \in 1..Len(prime_factor_list) : modpow(self, div(target_one, prime_factor_list[i]), prime) = from_int(1) THEN "false"
        ELSE "true"

is_primitive_root_body(self, prime) ==
    IF self.sign = "Negative" \/ self.sign = "Zero" THEN {"panic"}
    ELSE UNION {IF accepted # "true" THEN {"panic"}
                ELSE {IF prime_factor_list = <<Panic>> THEN "panic"
                      ELSE is_primitive_root_for(self, prime, dedup(prime_factor_list)) :
                          prime_factor_list \in prime_factor(sub(prime, from_int(1)))} :
                    accepted \in is_prime_probabilistic(prime, 2)}

-----------------------------------------------------------------------------
(* conversion.rs: From<String> and From<&[u8]>.  A string is a sequence of *)
(* character codes.                                                        *)

ASCII_DIFF == 48

HYPHEN == 45

is_numeric(char) == char \in ASCII_DIFF..(ASCII_DIFF + 9)

RECURSIVE strip_leading_zeros(_)
strip_leading_zeros(chars) ==
    IF chars # <<>> /\ chars[1] = ASCII_DIFF THEN strip_leading_zeros(Tail(chars)) ELSE chars

from_string(string) ==
    LET negative == string # <<>> /\ string[1] = HYPHEN
        accepted == string = <<>>
                    \/ /\ string[1] = HYPHEN \/ is_numeric(string[1])
                       /\ \A i \in 2..Len(string) : is_numeric(string[i])
        digits   == strip_leading_zeros(IF negative THEN Tail(string) ELSE string)
    IN  IF ~accepted \/ digits = <<>> THEN ChonkerInt_new
        ELSE [digits |-> reverse([i \in 1..Len(digits) |-> digits[i] - ASCII_DIFF]),
              sign   |-> IF negative THEN "Negative" ELSE "Positive"]

from_slice(slice) ==
    IF \E i \in 1..Len(slice) : slice[i] \notin 0..9 THEN Panic
    ELSE IF normalize_digits(slice) = <<>> THEN ChonkerInt_new
    ELSE [digits |-> normalize_digits(slice), sign |-> "Positive"]

-----------------------------------------------------------------------------
\* the mathematical value of a ChonkerInt, used to state properties only
RECURSIVE digits_value(_)
digits_value(digits) ==
    IF digits = <<>> THEN 0 ELSE digits[1] + RADIX * digits_value(Tail(digits))

value(x) == IF x.sign = "Negative" THEN -digits_value(x.digits) ELSE digits_value(x.digits)

-----------------------------------------------------------------------------

-----------------------------------------------------------------------------
(* The arithmetic specification: two operands are drawn, one public        *)
(* operation of the library is applied to them and its result is kept.     *)

MaxOperand == 130

MaxDivisor == 25

MaxPower == 6

MaxModpowBase == 30

MaxStringLen == 3

\* operands of test_bigint_division and test_bigint_modulus
TestOperands == {100000, 23423, -12345, -1230000}

Dividends == (-MaxOperand..MaxOperand) \cup TestOperands

Divisors == (-MaxDivisor..MaxDivisor) \cup TestOperands

\* the characters '-', '0', '1', '9' and 'a'
Chars == {HYPHEN, ASCII_DIFF, ASCII_DIFF + 1, ASCII_DIFF + 9, 97}

RECURSIVE SeqsUpTo(_, _)
SeqsUpTo(S, n) ==
    IF n = 0 THEN {<<>>}
    ELSE LET shorter == SeqsUpTo(S, n - 1)
         IN  shorter \cup {Append(t, x) : t \in shorter, x \in S}

Strings == SeqsUpTo(Chars, MaxStringLen)

Slices == SeqsUpTo({0, 1, 9}, MaxStringLen)

\* no pool has been constructed
NoPool ==
    /\ key_modulus = ChonkerInt_new
    /\ key_exponent = ChonkerInt_new
    /\ tasks = <<>>
    /\ channel = <<>>
    /\ lock = 0
    /\ workers = <<>>
    /\ results = <<>>
    /\ main = [pc |-> "none", index |-> 0]
    /\ received = <<>>
    /\ executed = <<>>

\* no key pair has been generated and nothing has been encrypted
NoRsa ==
    /\ key_pair = [public_key_n |-> ChonkerInt_new, public_key_e |-> ChonkerInt_new, private_key_d |-> ChonkerInt_new]
    /\ target = <<>>
    /\ encrypted = [status |-> "none", value |-> <<>>]
    /\ decrypted = [status |-> "none", value |-> <<>>]

\* no operation has returned a truth value or a vector
NoAnswer == [kind |-> "none", flag |-> FALSE, list |-> <<>>]

\* Option<String>: None, and Some of a sequence of character codes
None == [some |-> FALSE, value |-> <<>>]

Some(string) == [some |-> TRUE, value |-> string]

\* the function rsa has not been called
NoRequest == [mode |-> "none", target |-> None, key_exponent |-> None, key_modulus |-> None, thread_count |-> None]

\* no arithmetic operation is under way
NoArith ==
    /\ a = ChonkerInt_new
    /\ b = ChonkerInt_new
    /\ text = <<>>
    /\ op = "none"
    /\ res = ChonkerInt_new
    /\ answer = NoAnswer
    /\ request = NoRequest

InitArith ==
    /\ \/ /\ a \in {from_int(i) : i \in Dividends}
          /\ b \in {from_int(i) : i \in Divisors}
          /\ text = <<>>
       \/ /\ a = ChonkerInt_new
          /\ b = ChonkerInt_new
          /\ text \in Strings \cup Slices
    /\ op = "none"
    /\ res = ChonkerInt_new
    /\ answer = NoAnswer
    /\ request = NoRequest
    /\ NoPool
    /\ NoRsa

Apply(name, result) ==
    /\ op = "none"
    /\ op' = name
    /\ res' = result
    /\ UNCHANGED <<a, b, text, answer, request>>
    /\ UNCHANGED poolVars
    /\ UNCHANGED rsaVars

Add == Apply("add", add(a, b))

Sub == Apply("sub", sub(a, b))

Neg == Apply("neg", neg(a))

Mul == Apply("mul", mul(a, b))

Div == Apply("div", div(a, b))

Rem == Apply("rem", rem(a, b))

Pow == /\ digits_value(b.digits) <= MaxPower
       /\ Apply("pow", pow(a, b))

\* a to the power of some small exponent, modulo b
Modpow == /\ digits_value(a.digits) <= MaxModpowBase
          /\ \E power \in -1..MaxPower : Apply("modpow", modpow(a, from_int(power), b))

Gcd == Apply("gcd", gcd(a, b))

Egcd == Apply("egcd", egcd(a, b))

FromInteger == Apply("from_int", from_int(value(a)))

FromString == /\ text \in Strings
              /\ Apply("from_string", from_string(text))

FromSlice == /\ text \in Slices
             /\ Apply("from_slice", from_slice(text))

NextArith ==
    \/ Add \/ Sub \/ Neg \/ Mul \/ Div \/ Rem \/ Pow \/ Modpow
    \/ Gcd \/ Egcd \/ FromInteger \/ FromString \/ FromSlice

SpecArith == InitArith /\ [][NextArith]_vars

-----------------------------------------------------------------------------
(* Properties of the arithmetic operations *)

canonical(x) ==
    /\ x.sign \in {"Positive", "Zero", "Negative"}
    /\ x.sign = "Zero" <=> x.digits = <<>>
    /\ \A i \in 1..Len(x.digits) : x.digits[i] \in 0..9
    /\ x.digits # <<>> => x.digits[Len(x.digits)] # 0

abs(i) == IF i < 0 THEN -i ELSE i

\* |i| / |j| rounded toward zero, negative when the signs of i and j differ
truncated_quotient(i, j) ==
    IF (i < 0) = (j < 0) THEN abs(i) \div abs(j) ELSE -(abs(i) \div abs(j))

\* C7: every ChonkerInt returned by a public constructor or operation is
\* canonical: its sign is Zero exactly when it has no digits, every digit is
\* in 0..9 and its most significant digit is not 0.
C7_ResultsCanonical ==
    (op # "none" /\ res # Panic) =>
        IF op = "egcd"
        THEN canonical(res.gcd) /\ canonical(res.self_x) /\ canonical(res.other_y)
        ELSE canonical(res)

\* C8: for all a and all non-zero b, of any signs, (a / b) * b + (a % b) = a.
C8_DivRemIdentity ==
    (op = "rem" /\ res # Panic) => value(add(mul(div(a, b), b), res)) = value(a)

\* C9: a % b is the floor modulo: its magnitude is below that of b, it is zero
\* whenever b divides a, and when it is not zero it has the sign of b.
C9_FloorModulo ==
    (op = "rem" /\ res # Panic) =>
        /\ abs(value(res)) < abs(value(b))
        /\ value(a) % abs(value(b)) = 0 => value(res) = 0
        /\ value(res) # 0 => res.sign = b.sign

\* C10: for non-zero b, a / b is |a| / |b| rounded toward zero, positive when
\* the signs of a and b match and negative otherwise, and zero when |a| < |b|.
C10_DivTruncates ==
    (op = "div" /\ b # ChonkerInt_new) =>
        res = from_int(truncated_quotient(value(a), value(b)))

C10_Witness ==
    /\ op = "div"
    /\ a = from_int(-1230000)
    /\ b = from_int(100000)
    /\ res = from_int(-12)

\* i to the power k for k >= 0, with the power of zero being zero
power_of(i, k) == IF i = 0 THEN 0 ELSE i ^ k

\* C11: for all a, all exponents k >= 0 and all moduli m > 0, modpow(a, k, m)
\* is the floor-modulo residue of a^k in [0, m), also for k = 1 with a >= m or
\* a < 0 and for k = 0 with m = 1.
C11_ModpowIsPowMod ==
    [][\A power \in 0..MaxPower :
          (op = "none" /\ op' = "modpow" /\ value(b) > 0 /\ res' = modpow(a, from_int(power), b)) =>
              res' = from_int(power_of(value(a), power) % value(b))]_vars

\* the derived PartialEq of ChonkerInt: the digits and the signs are compared
eq(self, other) == self.digits = other.digits /\ self.sign = other.sign

\* C12: two ChonkerInts are == exactly when their signs and digits are
\* identical, and every zero-valued result of +, -, *, / or % is == to the
\* value of the zero constructor.
C12_ZeroResultsEqual ==
    (op \in {"add", "sub", "mul", "div", "rem"} /\ res # Panic /\ value(res) = 0) =>
        eq(res, ChonkerInt_new)

-----------------------------------------------------------------------------
(* rsa.rs: the closure task_clojure of rsa_bruteforce.  A run of the       *)
(* closure ends in one of four ways: it sends Success, it sends Terminate, *)
(* it returns without sending, or it panics.  The closure with given       *)
(* arguments is the set of the outcomes its run can have.                  *)

BRUTEFORCE_THREAD_COUNT == 8

no_result == [prime_q |-> ChonkerInt_new, prime_p |-> ChonkerInt_new, public_key_n |-> ChonkerInt_new, public_key_e |-> ChonkerInt_new, private_key_d |-> ChonkerInt_new]

Success(bruteforce_result) == [kind |-> "Success", error |-> "", result |-> bruteforce_result]

Terminate(error) == [kind |-> "Terminate", error |-> error, result |-> no_result]

Return == [kind |-> "Return", error |-> "", result |-> no_result]

Panics(message) == [kind |-> "Panic", error |-> message, result |-> no_result]

more_than_two_factors == "the target had more than 2 factors"

exponent_not_coprime == "the public exponent must be a coprime to the euler's totient"

private_exponent_negative == "the produced private exponent is negative"

\* the part of task_clojure after factor_rsa_modulus has returned prime_factors
task_clojure_factored(prime_factors, exponent, modulus) ==
    IF Len(prime_factors) > 2 THEN Terminate(more_than_two_factors)
    ELSE IF Len(prime_factors) < 2 THEN Return
    ELSE LET prime_p       == prime_factors[1]
             prime_q       == prime_factors[2]
             phi_n         == mul(sub(prime_p, from_int(1)), sub(prime_q, from_int(1)))
             private_key_d == egcd(exponent, phi_n).self_x
         IN  IF ~is_coprime(exponent, phi_n) THEN Terminate(exponent_not_coprime)
             ELSE IF private_key_d.sign = "Negative" THEN Terminate(private_exponent_negative)
             ELSE Success([prime_q |-> prime_q, prime_p |-> prime_p, public_key_n |-> modulus, public_key_e |-> exponent, private_key_d |-> private_key_d])

task_clojure(starting_point, exponent, modulus) ==
    {IF factored.panicked THEN Panics(factored.message)
     ELSE task_clojure_factored(factored.factor_list, exponent, modulus) :
        factored \in factor_rsa_modulus(modulus, starting_point)}

\* the step between the starting points of two consecutive tasks
increment_count_bigint(modulus) ==
    LET key_modulus_half_length == Len(modulus.digits) \div 2
        ceiling_limit           == [i \in 1..key_modulus_half_length |-> 9]
    IN  div(from_slice(ceiling_limit), from_u64(BRUTEFORCE_THREAD_COUNT))

\* the starting point of the task created in iteration `thread` of the loop
starting_point(modulus, thread) ==
    LET start_prime_point == from_int(3)
        unchecked         == add(start_prime_point, mul(increment_count_bigint(modulus), from_u64(thread)))
    IN  IF rem(unchecked, from_int(2)) = ChonkerInt_new THEN add(unchecked, from_int(1))
        ELSE unchecked

\* the early returns of rsa_bruteforce: a modulus of more than 10 digits and
\* a thread count outside 1..64 are refused before the pool is built
refused_body(modulus, thread_count) ==
    Len(modulus.digits) > 10 \/ thread_count > 64 \/ thread_count = 0

-----------------------------------------------------------------------------
(* threadpool.rs and the body of rsa_bruteforce.                           *)
(*                                                                         *)
(* The pool is owned by the main thread, which is either rsa_bruteforce    *)
(* (key_modulus is not zero) or a client that hands its own closures to    *)
(* ThreadPool::execute and then lets the pool go out of scope, as          *)
(* test_rsa_thread_pool_task_execution does.  A ThreadTask in the channel  *)
(* is NewJob(job), job being the index of the closure in tasks, or         *)
(* TerminateTask.  The Receiver of the channel is owned by the worker      *)
(* threads alone (ThreadPool::new drops its own Arc when it returns), so   *)
(* it is dropped, and Sender::send fails, once every worker has finished.  *)

MaxWorkers == 2

MaxJobs == 3

\* moduli given to rsa_bruteforce: 2*3, 3*5, 5*7 and 3*3*5
Moduli == {6, 15, 35, 45}

\* public exponents given to rsa_bruteforce
Exponents == {2, 3, 5}

NewJob(job) == [task |-> "NewJob", job |-> job]

TerminateTask == [task |-> "Terminate", job |-> 0]

\* the closures a client of the pool hands over: one that returns and one
\* that panics
ClientClosures == {{Return}, {Panics("client")}}

finished(w) == workers[w].pc \in {"exited", "panicked"}

receiver_dropped == \A w \in DOMAIN workers : finished(w)

\* main_receiver is alive until rsa_bruteforce has taken its one result
main_listening == key_modulus # ChonkerInt_new /\ main.pc \in {"execute", "recv"}

\* ThreadPool::new(size): every worker thread is spawned at the top of its loop
new(size) == [w \in 1..size |-> [pc |-> "lock", job |-> 0]]

\* rsa_bruteforce up to the loop that submits the tasks
InitBruteforce ==
    \E n \in Moduli, e \in Exponents, thread_count \in 1..MaxWorkers :
        /\ ~refused(from_int(n), thread_count)
        /\ key_modulus = from_int(n)
        /\ key_exponent = from_int(e)
        /\ workers = new(thread_count)
        /\ tasks = [job \in 1..BRUTEFORCE_THREAD_COUNT |-> task_clojure(starting_point(from_int(n), job - 1), from_int(e), from_int(n))]
        /\ executed = [job \in 1..BRUTEFORCE_THREAD_COUNT |-> <<>>]
        /\ main = [pc |-> "execute", index |-> 0]

\* a client that has built a pool and is about to submit its closures
InitClient ==
    \E size \in 1..MaxWorkers, count \in 1..MaxJobs :
        /\ key_modulus = ChonkerInt_new
        /\ key_exponent = ChonkerInt_new
        /\ workers = new(size)
        /\ tasks \in [1..count -> ClientClosures]
        /\ executed = [job \in 1..count |-> <<>>]
        /\ main = [pc |-> "execute", index |-> 0]

Init ==
    /\ NoArith
    /\ NoRsa
    /\ channel = <<>>
    /\ lock = 0
    /\ results = <<>>
    /\ received = <<>>
    /\ InitBruteforce \/ InitClient

\* ThreadPool::execute, called for the next closure: send(NewJob).unwrap()
Execute ==
    /\ main.pc = "execute"
    /\ IF receiver_dropped
       THEN /\ main' = [main EXCEPT !.pc = "panicked"]
            /\ UNCHANGED channel
       ELSE /\ channel' = Append(channel, NewJob(main.index + 1))
            /\ main' = IF main.index + 1 < Len(tasks)
                       THEN [main EXCEPT !.index = @ + 1]
                       ELSE [pc |-> IF key_modulus # ChonkerInt_new THEN "recv" ELSE "drop_send", index |-> 0]
    /\ UNCHANGED <<arithVars, rsaVars, key_modulus, key_exponent, tasks, lock, workers, results, received, executed>>

\* main_receiver.recv() of rsa_bruteforce returns the first result; the
\* function then returns it and its locals go out of scope, main_receiver
\* before the pool
Recv ==
    /\ main.pc = "recv"
    /\ results # <<>>
    /\ received' = <<Head(results)>>
    /\ results' = <<>>
    /\ main' = [pc |-> "drop_send", index |-> 0]
    /\ UNCHANGED <<arithVars, rsaVars, key_modulus, key_exponent, tasks, channel, lock, workers, executed>>

\* Drop::drop, first loop: send(Terminate).unwrap() for the next worker
DropSend ==
    /\ main.pc = "drop_send"
    /\ IF receiver_dropped
       THEN /\ main' = [main EXCEPT !.pc = "panicked"]
            /\ UNCHANGED channel
       ELSE /\ channel' = Append(channel, TerminateTask)
            /\ main' = IF main.index + 1 < Len(workers)
                       THEN [main EXCEPT !.index = @ + 1]
                       ELSE [pc |-> "drop_join", index |-> 1]
    /\ UNCHANGED <<arithVars, rsaVars, key_modulus, key_exponent, tasks, lock, workers, results, received, executed>>

\* Drop::drop, second loop: thread.join().unwrap_or(()) for the next worker
DropJoin ==
    /\ main.pc = "drop_join"
    /\ finished(main.index)
    /\ main' = IF main.index < Len(workers)
               THEN [main EXCEPT !.index = @ + 1]
               ELSE [pc |-> "returned", index |-> 0]
    /\ UNCHANGED <<arithVars, rsaVars, key_modulus, key_exponent, tasks, channel, lock, workers, results, received, executed>>

\* Worker: receiver.lock().unwrap()
Lock(w) ==
    /\ workers[w].pc = "lock"
    /\ lock = 0
    /\ lock' = w
    /\ workers' = [workers EXCEPT ![w].pc = "recv"]
    /\ UNCHANGED <<arithVars, rsaVars, key_modulus, key_exponent, tasks, channel, results, main, received, executed>>

\* a worker whose guard lives on while the job it received runs, as in
\* `while let Ok(task) = receiver.lock().unwrap().recv()`
WorkerRecv_guard_kept(w) ==
    /\ workers[w].pc = "recv"
    /\ channel # <<>>
    /\ channel' = Tail(channel)
    /\ lock' = IF Head(channel).task = "NewJob" THEN w ELSE 0
    /\ workers' = [workers EXCEPT ![w] = IF Head(channel).task = "NewJob"
                                          THEN [pc |-> "job", job |-> Head(channel).job]
                                          ELSE [pc |-> "exited", job |-> 0]]
    /\ UNCHANGED <<arithVars, rsaVars, key_modulus, key_exponent, tasks, results, main, received, executed>>

\* Worker: .recv().unwrap() under the lock, the guard is released at the end
\* of the statement; a NewJob is run next, Terminate breaks the loop
WorkerRecv(w) ==
    /\ workers[w].pc = "recv"
    /\ channel # <<>>
    /\ channel' = Tail(channel)
    /\ lock' = 0
    /\ workers' = [workers EXCEPT ![w] = IF Head(channel).task = "NewJob"
                                          THEN [pc |-> "job", job |-> Head(channel).job]
                                          ELSE [pc |-> "exited", job |-> 0]]
    /\ UNCHANGED <<arithVars, rsaVars, key_modulus, key_exponent, tasks, results, main, received, executed>>

\* Worker: job().  A result sent after the main thread has taken one is
\* never read, whether main_receiver is dropped already or not.
RunJob(w) ==
    /\ workers[w].pc = "job"
    /\ \E outcome \in tasks[workers[w].job] :
          /\ executed' = [executed EXCEPT ![workers[w].job] = Append(@, outcome)]
          /\ workers' = [workers EXCEPT ![w] = [pc |-> IF outcome.kind = "Panic" THEN "panicked" ELSE "lock", job |-> 0]]
          /\ results' = IF outcome.kind \in {"Success", "Terminate"} /\ main_listening
                        THEN Append(results, outcome)
                        ELSE results
    /\ UNCHANGED <<arithVars, rsaVars, key_modulus, key_exponent, tasks, channel, lock, main, received>>

Next ==
    \/ Execute
    \/ Recv
    \/ DropSend
    \/ DropJoin
    \/ \E w \in DOMAIN workers : Lock(w)
    \/ \E w \in DOMAIN workers : WorkerRecv(w)
    \/ \E w \in DOMAIN workers : RunJob(w)

Spec == Init /\ [][Next]_vars

-----------------------------------------------------------------------------
(* Properties of the brute-force engine and of the pool *)

is_prime_number(i) == i > 1 /\ \A k \in 2..(i - 1) : i % k # 0

RECURSIVE greatest_common_divisor(_, _)
greatest_common_divisor(i, j) == IF j = 0 THEN i ELSE greatest_common_divisor(j, i % j)

\* the pairs <<p, q>> of primes with p * q = n
prime_pairs(n) == {pq \in (2..n) \X (2..n) : is_prime_number(pq[1]) /\ is_prime_number(pq[2]) /\ pq[1] * pq[2] = n}

\* n is a product of two primes p and q, and e is coprime to (p-1)(q-1)
rsa_key(n, e) == \E pq \in prime_pairs(n) : greatest_common_divisor(e, (pq[1] - 1) * (pq[2] - 1)) = 1

\* the result is (p, q, n, e, d) with p * q = n and e * d = 1 modulo (p-1)(q-1)
correct_result(r, n, e) ==
    /\ r.public_key_n = n
    /\ r.public_key_e = e
    /\ value(r.prime_p) * value(r.prime_q) = value(n)
    /\ (value(e) * value(r.private_key_d)) % ((value(r.prime_p) - 1) * (value(r.prime_q) - 1)) = 1 % ((value(r.prime_p) - 1) * (value(r.prime_q) - 1))

\* C1: for a modulus n = p*q and an exponent e coprime to (p-1)(q-1), with any
\* permitted worker count, rsa_bruteforce does not return an error and does
\* not panic: what it returns is a success (p, q, n, e, d) with p*q = n and
\* e*d = 1 modulo (p-1)(q-1).
C1_BruteforceSucceeds ==
    (key_modulus # ChonkerInt_new /\ rsa_key(value(key_modulus), value(key_exponent))) =>
        /\ main.pc # "panicked"
        /\ received # <<>> => /\ received[1].kind = "Success"
                              /\ correct_result(received[1].result, key_modulus, key_exponent)

\* C2: once the main thread has received a TaskResult, the teardown of the
\* pool goes through: no send of Terminate panics, whatever the workers do
\* meanwhile, and when rsa_bruteforce has returned every worker thread has ended.
C2_TeardownCompletes ==
    received # <<>> =>
        /\ main.pc # "panicked"
        /\ main.pc = "returned" => \A w \in DOMAIN workers : finished(w)

consistency_failure(outcome) ==
    \/ outcome.kind = "Terminate"
    \/ outcome.kind = "Panic" /\ outcome.error = factor_composite

ran(job) == Len(executed'[job]) = Len(executed[job]) + 1

\* C3: a run of a task that detects a consistency failure (a wrong factor
\* count, a composite cofactor, an exponent that is not coprime to phi, a
\* negative d) while the main thread is waiting puts Terminate(error) on the
\* result channel.
C3_FailuresReported ==
    [][\A job \in DOMAIN executed :
          (key_modulus # ChonkerInt_new /\ main_listening /\ ran(job) /\ consistency_failure(executed'[job][Len(executed'[job])]))
              => /\ Len(results') = Len(results) + 1
                 /\ results'[Len(results')].kind = "Terminate"]_vars

\* C4: after a job has panicked in a worker the lock of the receiver is not
\* left held by the dead worker, and neither ThreadPool::execute nor the drop
\* of the pool panics.
C4_PanicDoesNotPoison ==
    (\E w \in DOMAIN workers : workers[w].pc = "panicked") =>
        /\ lock = 0 \/ workers[lock].pc = "recv"
        /\ main.pc # "panicked"

\* the jobs a worker is running
running(job) == {w \in DOMAIN workers : workers[w].pc = "job" /\ workers[w].job = job}

\* the places of a job in the channel
queued(job) == {i \in 1..Len(channel) : channel[i] = NewJob(job)}

\* C5: every task put on the job channel is consumed exactly once: no closure
\* is run twice or by two workers, and once the drop of the pool has returned
\* every closure that was submitted has been run.
C5_ExactlyOnce ==
    /\ \A job \in DOMAIN executed :
          Len(executed[job]) + Cardinality(running(job)) + Cardinality(queued(job)) <= 1
    /\ main.pc = "returned" => \A job \in DOMAIN executed : Len(executed[job]) = 1

-----------------------------------------------------------------------------
(* encoding/mod.rs.  A character is its code; a Result is [status, value]  *)
(* with status "Ok" or "Err".                                              *)

Ok(bytes) == [status |-> "Ok", value |-> bytes]

Err == [status |-> "Err", value |-> <<>>]

Panicking == [status |-> "Panic", value |-> <<>>]

\* -1 stands for the Err of encode_part_of_byte and of one_hex_to_u8
encode_part_of_byte(int_half) ==
    IF int_half \in 10..15 THEN int_half + 55
    ELSE IF int_half \in 0..9 THEN int_half + 48
    ELSE -1

one_u8_to_hex(int) == <<encode_part_of_byte(int \div 16), encode_part_of_byte(((int * 16) % 256) \div 16)>>

RECURSIVE hex_pairs(_)
hex_pairs(string) ==
    IF string = <<>> THEN <<>> ELSE one_u8_to_hex(Head(string)) \o hex_pairs(Tail(string))

string_hex_encode(string) ==
    IF \E i \in 1..Len(hex_pairs(string)) : hex_pairs(string)[i] = -1 THEN Err
    ELSE Ok(hex_pairs(string))

one_hex_to_u8(hex) ==
    IF hex \in 65..70 THEN hex - 65 + 10
    ELSE IF hex \in 97..102 THEN hex - 97 + 10
    ELSE IF hex \in 48..57 THEN hex - 48
    ELSE -1

string_hex_decode(hex_string) ==
    IF Len(hex_string) % 2 # 0 THEN Err
    ELSE IF \E i \in 1..Len(hex_string) : one_hex_to_u8(hex_string[i]) = -1 THEN Err
    ELSE Ok([i \in 1..(Len(hex_string) \div 2) |->
                ((one_hex_to_u8(hex_string[2 * i - 1]) * 16) % 256) + one_hex_to_u8(hex_string[2 * i])])

-----------------------------------------------------------------------------
(* rsa.rs: rsa_key_generation, rsa_encrypt and rsa_decrypt.                *)
(*                                                                         *)
(* The program packs BLOCK_SIZE = 16 bytes into a u128 and generates       *)
(* primes of 25 and 21 digits, so that the modulus exceeds every block.    *)
(* Here a block is BLOCK_SIZE bytes packed into an unsigned integer of     *)
(* 8 * BLOCK_SIZE bits, and the primes have PrimeLength digits.            *)

BLOCK_SIZE == 2

PrimeLength == 3

BLOCK_DELIMITER == -1

BLOCK_PADDING == 144

\* the width and the greatest value of the integer that holds a block
block_bits == 8 * BLOCK_SIZE

block_max == 2 ^ block_bits - 1

\* the numbers new_prime is let draw, and the exponents rsa_key_generation is
\* let draw
PrimeCandidates == {257, 259, 263}

ExponentCandidates == {1, 3, 5, 7, 11}

\* new_prime(length): the odd numbers of that length which the primality
\* test with 5 trials can accept
new_prime_body(length) ==
    {bigint \in {from_int(i) : i \in PrimeCandidates} :
        /\ Len(bigint.digits) = length
        /\ bigint.digits[1] \in {1, 3, 5, 7, 9}
        /\ "true" \in is_prime_probabilistic(bigint, 5)}

\* the key pairs rsa_key_generation can return for the primes drawn
key_pairs_body(prime_q, prime_p) ==
    LET big_one == from_int(1)
        phi_n   == mul(sub(prime_p, big_one), sub(prime_q, big_one))
    IN  {[public_key_n |-> mul(prime_q, prime_p), public_key_e |-> exponent_e, private_key_d |-> egcd(exponent_e, phi_n).self_x] :
            exponent_e \in {drawn \in {from_int(i) : i \in ExponentCandidates} :
                               /\ ge(drawn, big_one) /\ le(drawn, phi_n)
                               /\ ~(drawn = prime_q \/ drawn = prime_p \/ ~is_coprime(drawn, phi_n))
                               /\ egcd(drawn, phi_n).self_x.sign # "Negative"}}

rsa_key_generation ==
    LET primes == new_prime(PrimeLength)
    IN  UNION {UNION {key_pairs(prime_q, prime_p) : prime_p \in {drawn \in primes : ~(drawn = prime_q)}} : prime_q \in primes}

\* `big_int <<= 8; big_int |= byte` for every byte of the sequence
RECURSIVE store_bytes(_, _)
store_bytes(big_int, bytes) ==
    IF bytes = <<>> THEN big_int
    ELSE store_bytes(((big_int * 2 ^ 8) % 2 ^ block_bits) + Head(bytes), Tail(bytes))

\* the loop over target.chunks_exact(BLOCK_SIZE); the bytes left over are the
\* remainder
RECURSIVE encrypt_chunks(_, _, _, _, _)
encrypt_chunks(bytes, big_int, result_vector, exponent, modulus) ==
    IF Len(bytes) < BLOCK_SIZE
    THEN [big_int |-> big_int, result_vector |-> result_vector, remainder |-> bytes]
    ELSE LET stored           == store_bytes(big_int, SubSeq(bytes, 1, BLOCK_SIZE))
             encrypted_bigint == modpow(from_u128(stored), exponent, modulus)
         IN  encrypt_chunks(SubSeq(bytes, BLOCK_SIZE + 1, Len(bytes)), stored,
                            result_vector \o encrypted_bigint.digits \o <<BLOCK_DELIMITER>>,
                            exponent, modulus)

rsa_encrypt_body(bytes, exponent, modulus) ==
    LET chunks        == encrypt_chunks(bytes, 0, <<>>, exponent, modulus)
        padding_len   == BLOCK_SIZE - Len(chunks.remainder)
        stored        == store_bytes(store_bytes(chunks.big_int, chunks.remainder), [i \in 1..padding_len |-> BLOCK_PADDING])
        result_vector == IF chunks.remainder # <<>>
                         THEN chunks.result_vector \o modpow(from_u128(stored), exponent, modulus).digits
                         ELSE chunks.result_vector
    IN  string_hex_encode([i \in 1..Len(result_vector) |-> (result_vector[i] + 256) % 256])

\* slice.split(|int| *int == BLOCK_DELIMITER as u8): current is the subslice
\* that is being collected
RECURSIVE split(_, _)
split(slice, current) ==
    IF slice = <<>> THEN <<current>>
    ELSE IF Head(slice) = (BLOCK_DELIMITER + 256) % 256 THEN <<current>> \o split(Tail(slice), <<>>)
    ELSE split(Tail(slice), Append(current, Head(slice)))

\* the loop of to_digit, which stops after the digit of 10^MAX_BASE_EXP
RECURSIVE to_digit_loop(_, _, _)
to_digit_loop(digits, exp, result_integer) ==
    IF exp > Len(digits) - 1 THEN result_integer
    ELSE IF exp = MAX_BASE_EXP THEN result_integer + digits[exp + 1] * 10 ^ exp
    ELSE to_digit_loop(digits, exp + 1, result_integer + digits[exp + 1] * 10 ^ exp)

\* ChonkerInt::to_digit; -1 stands for its panic
to_digit(self) ==
    IF self = ChonkerInt_new THEN 0
    ELSE IF gt(self, from_u128(block_max)) THEN -1
    ELSE to_digit_loop(self.digits, 0, 0)

\* the loop `for iteration in 0..BLOCK_SIZE` of rsa_decrypt: the bytes of one
\* block from the first on, padded tells that the padding byte was met
RECURSIVE block_bytes(_, _, _)
block_bytes(big_unsigned_integer, iteration, bytes) ==
    LET left_byte_shift_counter  == 8 * iteration
        right_byte_shift_counter == 8 * (BLOCK_SIZE - 1)
        original_byte == ((big_unsigned_integer * 2 ^ left_byte_shift_counter) % 2 ^ block_bits) \div 2 ^ right_byte_shift_counter
    IN  IF original_byte = BLOCK_PADDING THEN [padded |-> TRUE, bytes |-> bytes]
        ELSE IF iteration = BLOCK_SIZE - 1 THEN [padded |-> FALSE, bytes |-> Append(bytes, original_byte)]
        ELSE block_bytes(big_unsigned_integer, iteration + 1, Append(bytes, original_byte))

\* the loop 'outer of rsa_decrypt over the blocks that are left
RECURSIVE decrypt_blocks(_, _, _, _)
decrypt_blocks(blocks, decrypted_bigint_vec, exponent, modulus) ==
    IF blocks = <<>> THEN Ok(decrypted_bigint_vec)
    ELSE IF from_slice(Head(blocks)) = Panic THEN Panicking
    ELSE LET big_unsigned_integer == to_digit(modpow(from_slice(Head(blocks)), exponent, modulus))
             block == block_bytes(big_unsigned_integer, 0, <<>>)
         IN  IF big_unsigned_integer = -1 THEN Panicking
             ELSE IF block.padded THEN Ok(decrypted_bigint_vec \o block.bytes)
             ELSE decrypt_blocks(Tail(blocks), decrypted_bigint_vec \o block.bytes, exponent, modulus)

rsa_decrypt_body(hex_string, exponent, modulus) ==
    LET decoded_string == string_hex_decode(hex_string)
    IN  IF decoded_string.status = "Err" THEN Err
        ELSE decrypt_blocks(split(decoded_string.value, <<>>), <<>>, exponent, modulus)

-----------------------------------------------------------------------------
(* The dispatch of every operation above.                                 *)

call(f, x, y, z) ==
    CASE f = "cmp"      -> cmp_body(x, y)
      [] f = "from_int" -> from_int_body(x)
      [] f = "neg"      -> neg_body(x)
      [] f = "add"      -> add_body(x, y)
      [] f = "sub"      -> sub_body(x, y)
      [] f = "mul"      -> mul_body(x, y)
      [] f = "qea"      -> quotient_estimation_algorithm_body(x, y)
      [] f = "div"      -> div_body(x, y)
      [] f = "rem"      -> rem_body(x, y)
      [] f = "pow"      -> pow_body(x, y)
      [] f = "modpow"   -> modpow_body(x, y, z)
      [] f = "gcd"      -> gcd_body(x, y)
      [] f = "egcd"     -> egcd_body(x, y)
      [] f = "from_u64" -> generic_from_unsigned_integer(x)
      [] f = "from_u128" -> generic_from_unsigned_integer(x)
      [] f = "new_rand_range_value"   -> new_rand_range_value_body(x, y, z)
      [] f = "is_prime_probabilistic" -> is_prime_probabilistic_body(x, y)
      [] f = "is_coprime"             -> is_coprime_body(x, y)
      [] f = "factor_rsa_modulus"     -> factor_rsa_modulus_body(x, y)
      [] f = "is_prime"               -> is_prime_body(x)
      [] f = "factor"                 -> factor_body(x)
      [] f = "prime_factor"           -> prime_factor_body(x)
      [] f = "is_primitive_root"      -> is_primitive_root_body(x, y)
      [] f = "refused"                -> refused_body(x, y)
      [] f = "new_prime"              -> new_prime_body(x)
      [] f = "key_pairs"              -> key_pairs_body(x, y)
      [] f = "rsa_encrypt"            -> rsa_encrypt_body(x, y, z)
      [] f = "rsa_decrypt"            -> rsa_decrypt_body(x, y, z)

-----------------------------------------------------------------------------
(* The cipher specification: a key pair is generated, a plaintext is       *)
(* encrypted with the public key and the result is decrypted with the      *)
(* private key.                                                            *)

MaxTargetLen == 4

\* the bytes of the plaintexts: NUL and 'A'
TargetBytes == {0, 65}

Targets == SeqsUpTo(TargetBytes, MaxTargetLen)

InitRsa ==
    /\ NoArith
    /\ NoPool
    /\ key_pair \in rsa_key_generation
    /\ target \in Targets
    /\ encrypted = [status |-> "none", value |-> <<>>]
    /\ decrypted = [status |-> "none", value |-> <<>>]

Encrypt ==
    /\ encrypted.status = "none"
    /\ encrypted' = rsa_encrypt(target, key_pair.public_key_e, key_pair.public_key_n)
    /\ UNCHANGED <<arithVars, poolVars, key_pair, target, decrypted>>

Decrypt ==
    /\ encrypted.status = "Ok"
    /\ decrypted.status = "none"
    /\ decrypted' = rsa_decrypt(encrypted.value, key_pair.private_key_d, key_pair.public_key_n)
    /\ UNCHANGED <<arithVars, poolVars, key_pair, target, encrypted>>

NextRsa == Encrypt \/ Decrypt

SpecRsa == InitRsa /\ [][NextRsa]_vars

\* C6: for every generated key and every plaintext without the byte 0x90, of
\* any length, the empty one and the multiples of the block size included,
\* decrypting the encrypted plaintext returns exactly the plaintext.
C6_RoundTrip == decrypted.status # "none" => decrypted = Ok(target)

-----------------------------------------------------------------------------
(* Further properties of the arithmetic operations *)

\* C13: for all non-negative a and b, zero included, a.egcd(b) returns
\* (g, x, y) with g = gcd(a, b) and a * x + b * y = g.  The operands are kept
\* to those whose products fit the integers of the checker.
C13_EgcdBezout ==
    (op = "egcd" /\ value(a) >= 0 /\ value(b) >= 0 /\ (value(a) <= MaxOperand \/ value(b) <= MaxDivisor)) =>
        /\ value(res.gcd) = greatest_common_divisor(value(a), value(b))
        /\ value(a) * value(res.self_x) + value(b) * value(res.other_y) = value(res.gcd)

\* C14: for all a and b of any sign, gcd(a, b) is the non-negative greatest
\* common divisor: gcd(a, 0) = gcd(0, a) = |a|, gcd(a, b) = gcd(b, a), and
\* gcd(a, b) divides a and b.
C14_GcdNonNegative ==
    op = "gcd" =>
        /\ value(res) = greatest_common_divisor(abs(value(a)), abs(value(b)))
        /\ value(res) = value(gcd(b, a))
        /\ value(res) # 0 => value(a) % abs(value(res)) = 0 /\ value(b) % abs(value(res)) = 0

-----------------------------------------------------------------------------
(* Properties of the generated keys *)

\* the pairs <<p, q>> with p * q = n and p of at most PrimeLength digits
factor_pairs(n) == {<<p, n \div p>> : p \in {k \in 2..(10 ^ PrimeLength - 1) : n % k = 0}}

\* C15: every key pair (n, e, d) returned by rsa_key_generation has n = p * q
\* for two distinct primes p and q, gcd(e, phi) = 1, e * d = 1 (mod phi) and
\* d > 0, where phi = (p - 1)(q - 1).
C15_KeyPairValid ==
    key_pair.public_key_n # ChonkerInt_new =>
        \E pq \in factor_pairs(value(key_pair.public_key_n)) :
            /\ pq[1] # pq[2]
            /\ is_prime_number(pq[1])
            /\ is_prime_number(pq[2])
            /\ greatest_common_divisor(value(key_pair.public_key_e), (pq[1] - 1) * (pq[2] - 1)) = 1
            /\ (value(key_pair.public_key_e) * value(key_pair.private_key_d)) % ((pq[1] - 1) * (pq[2] - 1)) = 1
            /\ value(key_pair.private_key_d) > 0

-----------------------------------------------------------------------------
(* The number-theory specification: a number is drawn and one of the       *)
(* operations is_prime, factor and is_primitive_root is applied to it,     *)
(* the last one with a modulus that is drawn as well.                      *)

MaxNumber == 130

MaxFactorTarget == 40

MaxRoot == 14

\* the operand of test_bigint_is_prime that is divisible by 2 and 3
TestNumbers == {4230}

Numbers == (-MaxNumber..MaxNumber) \cup TestNumbers

\* the moduli given to is_primitive_root: primes, and a composite
RootModuli == {2, 3, 4, 5, 7, 13}

Truth(flag) == [kind |-> "bool", flag |-> flag, list |-> <<>>]

Vector(list) == [kind |-> "list", flag |-> FALSE, list |-> list]

Panicked_answer == [kind |-> "panic", flag |-> FALSE, list |-> <<>>]

InitNumber ==
    /\ \/ /\ a \in {from_int(i) : i \in Numbers}
          /\ b = ChonkerInt_new
       \/ /\ a \in {from_int(i) : i \in -1..MaxRoot}
          /\ b \in {from_int(i) : i \in RootModuli}
    /\ text = <<>>
    /\ op = "none"
    /\ res = ChonkerInt_new
    /\ answer = NoAnswer
    /\ request = NoRequest
    /\ NoPool
    /\ NoRsa

\* an operation of the given name returns the given answer
Answer(name, result) ==
    /\ op = "none"
    /\ op' = name
    /\ answer' = result
    /\ UNCHANGED <<a, b, text, res, request>>
    /\ UNCHANGED poolVars
    /\ UNCHANGED rsaVars

IsPrime == /\ b = ChonkerInt_new
           /\ Answer("is_prime", Truth(is_prime(a)))

Factor == /\ b = ChonkerInt_new
          /\ digits_value(a.digits) <= MaxFactorTarget
          /\ \E factor_list \in factor(a) :
                 Answer("factor", IF factor_list = <<Panic>> THEN Panicked_answer ELSE Vector(factor_list))

IsPrimitiveRoot == /\ b # ChonkerInt_new
                   /\ \E root \in is_primitive_root(a, b) :
                          Answer("is_primitive_root", IF root = "panic" THEN Panicked_answer ELSE Truth(root = "true"))

NextNumber == IsPrime \/ Factor \/ IsPrimitiveRoot

SpecNumber == InitNumber /\ [][NextNumber]_vars

-----------------------------------------------------------------------------
(* Properties of the number-theory operations *)

\* C16: is_prime(n) returns true exactly when n is a prime number: false for
\* every n <= 1, true for 2 and 3, false for every other n divisible by 2 or 3.
C16_IsPrimeExact ==
    op = "is_prime" => answer = Truth(is_prime_number(value(a)))

\* the divisors of n from 1 to |n|, with their negated copies when n < 0
divisors(n) ==
    LET positive == {d \in 1..abs(n) : abs(n) % d = 0}
    IN  IF n < 0 THEN positive \cup {-d : d \in positive} ELSE positive

\* the values of the list are the elements of the set, each once, ascending
ascending_listing(list, set) ==
    /\ Len(list) = Cardinality(set)
    /\ {value(list[i]) : i \in 1..Len(list)} = set
    /\ \A i \in 1..(Len(list) - 1) : value(list[i]) < value(list[i + 1])

\* C17: for every composite n, factor(n) returns every divisor of |n| from 1
\* to |n| exactly once (with the negated copies when n is negative), sorted
\* ascending, also when d * d = n; for 0 and for prime n it returns the empty
\* list.
C17_FactorListsDivisors ==
    op = "factor" =>
        /\ (value(a) = 0 \/ is_prime_number(value(a))) => answer = Vector(<<>>)
        /\ (abs(value(a)) > 1 /\ ~is_prime_number(abs(value(a)))) =>
               /\ answer.kind = "list"
               /\ ascending_listing(answer.list, divisors(value(a)))

\* the least k in 1..p-1 with g^k = 1 (mod p), 0 when there is none
RECURSIVE order_from(_, _, _, _)
order_from(g, p, k, g_to_k) ==
    IF k > p - 1 THEN 0
    ELSE IF g_to_k % p = 1 % p THEN k
    ELSE order_from(g, p, k + 1, (g_to_k * g) % p)

multiplicative_order(g, p) == order_from(g, p, 1, g % p)

\* C18: for every prime p and every positive g, g.is_primitive_root(p) returns
\* true exactly when the multiplicative order of g modulo p is p - 1, also for
\* p = 2 and p = 3.
C18_PrimitiveRootExact ==
    (op = "is_primitive_root" /\ is_prime_number(value(b)) /\ value(a) > 0) =>
        answer = Truth(multiplicative_order(value(a), value(b)) = value(b) - 1)

-----------------------------------------------------------------------------
(* rsa.rs: the function rsa in the modes Encode, Decode and Bruteforce.    *)
(* The primality test of the modulus is random, so rsa is the set of the   *)
(* results it can return.  Where it goes on to rsa_bruteforce and the pool *)
(* is built, the result is Bruteforcing: what follows is the matter of the *)
(* pool specification.                                                     *)

OperationError == [kind |-> "OperationError", flag |-> FALSE, list |-> <<>>]

ParseIntError == [kind |-> "ParseIntError", flag |-> FALSE, list |-> <<>>]

StringResult(string) == [kind |-> "StringResult", flag |-> FALSE, list |-> string]

Bruteforcing == [kind |-> "rsa_bruteforce", flag |-> FALSE, list |-> <<>>]

\* diffie_hellman.rs: every character is numeric
check_parameter_is_numeric(parameter) == \A i \in 1..Len(parameter) : is_numeric(parameter[i])

\* str::parse::<usize> of a string of digits, -1 for its error
RECURSIVE parse(_, _)
parse(string, parsed) ==
    IF string = <<>> THEN parsed
    ELSE IF ~is_numeric(Head(string)) THEN -1
    ELSE parse(Tail(string), parsed * 10 + (Head(string) - ASCII_DIFF))

\* the match on mode at the end of the closure
rsa_operation(mode, unwrap_target, exponent, modulus, unwrap_thread_count) ==
    IF mode = "Encode"
    THEN LET encryption_result == rsa_encrypt(unwrap_target, exponent, modulus)
         IN  IF encryption_result.status = "Ok" THEN StringResult(encryption_result.value) ELSE OperationError
    ELSE IF mode = "Decode"
    THEN LET decryption_result == rsa_decrypt(unwrap_target, exponent, modulus)
         IN  IF decryption_result.status = "Ok" THEN StringResult(decryption_result.value)
             ELSE IF decryption_result.status = "Err" THEN OperationError
             ELSE Panicked_answer
    ELSE IF refused(modulus, IF unwrap_thread_count.some THEN unwrap_thread_count.value ELSE BRUTEFORCE_THREAD_COUNT)
    THEN OperationError
    ELSE Bruteforcing

\* the closure once the modulus has been found composite
rsa_composite(mode, target_string, exponent, modulus, count_string) ==
    IF Len(modulus.digits) <= 39 /\ (mode = "Encode" \/ mode = "Decode") THEN OperationError
    ELSE IF mode = "Encode" \/ mode = "Decode"
    THEN IF ~target_string.some THEN OperationError
         ELSE rsa_operation(mode, target_string.value, exponent, modulus, None)
    ELSE IF ~count_string.some THEN rsa_operation(mode, <<>>, exponent, modulus, None)
    ELSE IF ~check_parameter_is_numeric(count_string.value) THEN OperationError
    ELSE IF Len(count_string.value) > 2 THEN OperationError
    ELSE IF count_string.value = <<>> THEN ParseIntError
    ELSE rsa_operation(mode, <<>>, exponent, modulus, [some |-> TRUE, value |-> parse(count_string.value, 0)])

rsa(mode, target_string, exponent_string, modulus_string, count_string) ==
    IF ~exponent_string.some THEN {OperationError}
    ELSE IF ~modulus_string.some THEN {OperationError}
    ELSE IF ~check_parameter_is_numeric(modulus_string.value) THEN {OperationError}
    ELSE IF ~check_parameter_is_numeric(modulus_string.value) THEN {OperationError}
    ELSE LET exponent == from_string(exponent_string.value)
             modulus  == from_string(modulus_string.value)
         IN  {IF prime = "true" THEN OperationError
              ELSE IF prime = "panic" THEN Panicked_answer
              ELSE rsa_composite(mode, target_string, exponent, modulus, count_string) :
                  prime \in is_prime_probabilistic(modulus, 1)}

-----------------------------------------------------------------------------
(* The driver specification: the function rsa is called once with          *)
(* arguments as the command line hands them over, and returns.             *)

\* a composite modulus of 40 digits, "2222...2"
LongModulus == [i \in 1..40 |-> ASCII_DIFF + 2]

\* the strings "A" and "0102"
TargetStrings == {<<65>>, <<ASCII_DIFF, ASCII_DIFF + 1, ASCII_DIFF, ASCII_DIFF + 2>>}

\* the strings "3", "a" and "3a"
ExponentStrings == {<<ASCII_DIFF + 3>>, <<97>>, <<ASCII_DIFF + 3, 97>>}

\* the 40 digits, the 40 digits with the last one replaced by 'a', "15" and
\* "1a"
ModulusStrings == {LongModulus, [LongModulus EXCEPT ![40] = 97], <<ASCII_DIFF + 1, ASCII_DIFF + 5>>, <<ASCII_DIFF + 1, 97>>}

\* the strings "1", "x" and "100"
CountStrings == {<<ASCII_DIFF + 1>>, <<120>>, <<ASCII_DIFF + 1, ASCII_DIFF, ASCII_DIFF>>}

Options(strings) == {None} \cup {Some(string) : string \in strings}

InitDriver ==
    /\ request \in [mode : {"Encode", "Decode", "Bruteforce"}, target : Options(TargetStrings), key_exponent : Options(ExponentStrings), key_modulus : Options(ModulusStrings), thread_count : Options(CountStrings)]
    /\ a = ChonkerInt_new
    /\ b = ChonkerInt_new
    /\ text = <<>>
    /\ op = "none"
    /\ res = ChonkerInt_new
    /\ answer = NoAnswer
    /\ NoPool
    /\ NoRsa

Rsa ==
    /\ op = "none"
    /\ op' = "rsa"
    /\ answer' \in rsa(request.mode, request.target, request.key_exponent, request.key_modulus, request.thread_count)
    /\ UNCHANGED <<a, b, text, res, request>>
    /\ UNCHANGED poolVars
    /\ UNCHANGED rsaVars

NextDriver == Rsa

SpecDriver == InitDriver /\ [][NextDriver]_vars

\* C19: in the modes Encode, Decode and Bruteforce, rsa returns an operation
\* error whenever the string of the key exponent or of the key modulus has a
\* character that is not a digit, whatever the other arguments are.  (Where
\* rsa goes on to build the pool, the result is left to the pool.)
C19_NonNumericRefused ==
    (/\ op = "rsa"
     /\ request.key_exponent.some
     /\ request.key_modulus.some
     /\ ~check_parameter_is_numeric(request.key_exponent.value) \/ ~check_parameter_is_numeric(request.key_modulus.value)) =>
        answer = OperationError \/ answer = Bruteforcing

-----------------------------------------------------------------------------
(* conversion.rs: Display for ChonkerInt, a string being a sequence of     *)
(* character codes                                                         *)

fmt(self) ==
    IF self = ChonkerInt_new THEN <<ASCII_DIFF>>
    ELSE LET digits_vec == reverse(self.digits)
             digits_string == [i \in 1..Len(digits_vec) |-> digits_vec[i] + ASCII_DIFF]
         IN  IF self.sign = "Negative" THEN <<HYPHEN>> \o digits_string ELSE digits_string

\* the decimal numeral of a natural number, and of an integer
RECURSIVE natural_numeral(_)
natural_numeral(n) ==
    IF n < 10 THEN <<ASCII_DIFF + n>> ELSE Append(natural_numeral(n \div 10), ASCII_DIFF + (n % 10))

numeral(i) == IF i < 0 THEN <<HYPHEN>> \o natural_numeral(-i) ELSE natural_numeral(i)

\* an optional '-' and then one or more digits
well_formed(string) ==
    LET body == IF string # <<>> /\ string[1] = HYPHEN THEN Tail(string) ELSE string
    IN  body # <<>> /\ \A i \in 1..Len(body) : is_numeric(body[i])

\* the value of a well-formed string
RECURSIVE body_value(_)
body_value(body) ==
    IF body = <<>> THEN 0 ELSE 10 * body_value(SubSeq(body, 1, Len(body) - 1)) + (body[Len(body)] - ASCII_DIFF)

string_value(string) == IF string[1] = HYPHEN THEN -body_value(Tail(string)) ELSE body_value(string)

\* C20: the string constructor yields the canonical ChonkerInt of the value of
\* a well-formed decimal string and canonical zero for a string with any other
\* character; Display of every ChonkerInt produced by a constructor or an
\* arithmetic operation is its decimal numeral, "0" for every zero-valued
\* result, and the string constructor reads it back to the same ChonkerInt.
C20_StringRoundTrip ==
    /\ (op = "from_string" /\ well_formed(text)) => canonical(res) /\ value(res) = string_value(text)
    /\ (op = "from_string" /\ \E i \in 1..Len(text) : ~is_numeric(text[i]) /\ text[i] # HYPHEN) => res = ChonkerInt_new
    /\ (op \in {"add", "sub", "neg", "mul", "div", "rem", "pow", "modpow", "gcd", "from_int", "from_string", "from_slice"} /\ res # Panic) =>
           /\ fmt(res) = numeral(value(res))
           /\ from_string(fmt(res)) = res

-----------------------------------------------------------------------------
(* Further properties of addition, subtraction and multiplication *)

\* third operands for the laws with three operands
Thirds == {from_int(i) : i \in {-1230000, -100, -9, 0, 1, 99}}

\* C21: for canonical a, b and c of any sign, a + b and a - b are the exact
\* sum and difference in canonical form, and a + 0 = a, a + (-a) = 0,
\* a + b = b + a, (a + b) + c = a + (b + c), a - a = 0, a - 0 = a,
\* 0 - a = -a and a - b = a + (-b) hold as structural equalities.
C21_AdditiveGroup ==
    /\ op = "add" =>
           /\ canonical(res) /\ value(res) = value(a) + value(b)
           /\ add(a, ChonkerInt_new) = a
           /\ add(a, neg(a)) = ChonkerInt_new
           /\ res = add(b, a)
           /\ \A c \in Thirds : add(res, c) = add(a, add(b, c))
    /\ op = "sub" =>
           /\ canonical(res) /\ value(res) = value(a) - value(b)
           /\ sub(a, a) = ChonkerInt_new
           /\ sub(a, ChonkerInt_new) = a
           /\ sub(ChonkerInt_new, a) = neg(a)
           /\ res = add(a, neg(b))

\* a sum with a carry into a new digit, and a difference with a borrow
C21_Witness ==
    \/ op = "add" /\ a = from_int(99) /\ b = from_int(1) /\ res = from_int(100)
    \/ op = "sub" /\ a = from_int(100) /\ b = from_int(-1230000) /\ res = from_int(1230100)

\* the number of zero digits at the low end of a digit vector
RECURSIVE trailing_zeros(_)
trailing_zeros(digits) ==
    IF digits = <<>> \/ Head(digits) # 0 THEN 0 ELSE 1 + trailing_zeros(Tail(digits))

\* the digits of a natural number, least significant first
RECURSIVE little_endian(_)
little_endian(n) == IF n = 0 THEN <<>> ELSE <<n % 10>> \o little_endian(n \div 10)

\* the canonical ChonkerInt of the product of two canonical ChonkerInts; the
\* powers of ten of the operands are set aside before multiplying
exact_product(x, y) ==
    LET zeros_x == trailing_zeros(x.digits)
        zeros_y == trailing_zeros(y.digits)
        magnitude == digits_value(SubSeq(x.digits, zeros_x + 1, Len(x.digits)))
                     * digits_value(SubSeq(y.digits, zeros_y + 1, Len(y.digits)))
    IN  IF magnitude = 0 THEN ChonkerInt_new
        ELSE [digits |-> [i \in 1..(zeros_x + zeros_y) |-> 0] \o little_endian(magnitude),
              sign   |-> IF x.sign = y.sign THEN "Positive" ELSE "Negative"]

\* C22: for canonical a and b, a * b is the exact product in canonical form,
\* also when an operand has zero digits: a * 0 = 0, a * 1 = a, a * (-1) = -a,
\* a * b = b * a structurally, and a non-zero product is positive exactly when
\* the signs of a and b agree.
C22_MulExact ==
    op = "mul" =>
        /\ res = exact_product(a, b)
        /\ canonical(res)
        /\ res # ChonkerInt_new => (res.sign = "Positive" <=> a.sign = b.sign)
        /\ res = mul(b, a)
        /\ mul(a, ChonkerInt_new) = ChonkerInt_new
        /\ mul(a, from_int(1)) = a
        /\ mul(a, from_int(-1)) = neg(a)

\* the product of the multiplication test, whose operands end in zero digits
C22_Witness ==
    /\ op = "mul"
    /\ a = from_int(100000)
    /\ b = from_int(-1230000)
    /\ res = [digits |-> <<0, 0, 0, 0, 0, 0, 0, 0, 0, 3, 2, 1>>, sign |-> "Negative"]

-----------------------------------------------------------------------------
(* The engine under fair scheduling: a thread that can take a step         *)
(* eventually takes one.                                                   *)

SpecFair == Init /\ [][Next]_vars /\ WF_vars(Next)

\* C23: for every modulus that rsa_bruteforce accepts, every exponent and
\* every permitted worker count, the blocking receive of the main thread on
\* the result channel does not wait forever, also when jobs end without
\* sending anything: rsa_bruteforce goes on to return a result or an error.
C23_ReceiveReturns ==
    (key_modulus # ChonkerInt_new /\ main.pc = "recv") ~> (main.pc # "recv")

-----------------------------------------------------------------------------
(* Further properties of the pool *)

\* the workers that are inside receiver.lock().unwrap().recv()
receiving == {w \in DOMAIN workers : workers[w].pc = "recv"}

\* the workers that wait for the lock or for a message
idle == {w \in DOMAIN workers : workers[w].pc \in {"lock", "recv"}}

\* the jobs taken from the channel so far, running or run
taken(job) == Cardinality(running(job)) + Len(executed[job])

\* C24: a worker holds the lock of the job receiver only while it performs a
\* single receive and never while it runs a job: at most one worker is inside
\* a receive, no message is delivered to two workers, and a running job does
\* not keep another worker from receiving the next task.
C24_LockOnlyAcrossReceive ==
    /\ \A w \in DOMAIN workers : lock = w <=> workers[w].pc = "recv"
    /\ Cardinality(receiving) <= 1
    /\ \A job \in DOMAIN executed : taken(job) <= 1
    /\ (channel # <<>> /\ idle # {} /\ \E w \in DOMAIN workers : workers[w].pc = "job") =>
           \E v \in idle : ENABLED Lock(v) \/ ENABLED WorkerRecv(v)

\* two workers run two jobs at the same time
C24_Witness ==
    \E w, v \in DOMAIN workers :
        /\ workers[w].pc = "job"
        /\ workers[v].pc = "job"
        /\ workers[w].job # workers[v].job

\* the Terminate messages sent so far: those in the channel and those taken
terminates_sent ==
    Cardinality({i \in 1..Len(channel) : channel[i] = TerminateTask})
    + Cardinality({w \in DOMAIN workers : workers[w].pc = "exited"})

\* C25: the drop of a pool of W workers sends exactly W Terminate messages,
\* once, after all submitted jobs: no send of the drop fails, a worker takes a
\* Terminate only when no job is left in the channel, a worker that takes one
\* leaves its loop, and a running job is not cancelled.
C25_DropSendsTerminates ==
    [][/\ main.pc = "drop_send" => main'.pc # "panicked"
       /\ terminates_sent' <= Len(workers)
       /\ main'.pc \in {"drop_join", "returned"} => terminates_sent' = Len(workers)
       /\ \A w \in DOMAIN workers :
             /\ (workers[w].pc = "recv" /\ workers'[w].pc = "exited") =>
                    \A i \in 1..Len(channel) : channel[i].task # "NewJob"
             /\ workers[w].pc = "job" => workers'[w].pc \in {"job", "lock", "panicked"}
             /\ workers[w].pc = "exited" => workers'[w].pc = "exited"]_vars

-----------------------------------------------------------------------------
(* The race specification: rsa_bruteforce has been called with the modulus *)
(* 175 = 5 * 5 * 7, whose jobs start their searches at 3, 5, 5, 7, 7, 9,   *)
(* 9 and 11, and with enough workers for a job that starts at 7 to run     *)
(* while the jobs before it are still running.  The main thread has        *)
(* submitted all jobs but the last, three workers have taken the first     *)
(* three jobs and have not finished them, the fourth waits for the lock.   *)

RaceWorkers == 4

InitRace ==
    /\ NoArith
    /\ NoRsa
    /\ lock = 0
    /\ results = <<>>
    /\ received = <<>>
    /\ ~refused(from_int(175), RaceWorkers)
    /\ key_modulus = from_int(175)
    /\ key_exponent = from_int(7)
    /\ workers = [w \in 1..RaceWorkers |-> IF w < RaceWorkers THEN [pc |-> "job", job |-> w] ELSE [pc |-> "lock", job |-> 0]]
    /\ tasks = [job \in 1..BRUTEFORCE_THREAD_COUNT |-> task_clojure(starting_point(key_modulus, job - 1), key_exponent, key_modulus)]
    /\ executed = [job \in 1..BRUTEFORCE_THREAD_COUNT |-> <<>>]
    /\ channel = [i \in 1..(BRUTEFORCE_THREAD_COUNT - RaceWorkers) |-> NewJob(i + RaceWorkers - 1)]
    /\ main = [pc |-> "execute", index |-> BRUTEFORCE_THREAD_COUNT - 1]

SpecRace == InitRace /\ [][Next]_vars

\* the messages a job can send
sendable(job) == {outcome \in tasks[job] : outcome.kind \in {"Success", "Terminate"}}

\* C26: for fixed n, e and worker count the value that rsa_bruteforce
\* returns, the success tuple or the error, does not depend on which job's
\* message the main thread receives first: while nothing has been sent, any
\* two jobs that run at the same time, either of which may be the first to
\* send, can only send the same message.
C26_OutcomeIndependentOfRace ==
    (key_modulus # ChonkerInt_new /\ main_listening /\ results = <<>>) =>
        \A w, v \in DOMAIN workers :
            (workers[w].pc = "job" /\ workers[v].pc = "job") =>
                \A first \in sendable(workers[w].job), second \in sendable(workers[v].job) : first = second

-----------------------------------------------------------------------------
(* The partition specification: rsa_bruteforce is called with a modulus of *)
(* one to ten digits and a worker count, and submits its jobs; the answer  *)
(* is the vector of the starting points of the jobs it has submitted.      *)

\* the longest modulus that rsa_bruteforce accepts
MaxModulusLen == 10

\* moduli of every length, written with one repeated odd digit
PartitionModuli == {[digits |-> [i \in 1..length |-> digit], sign |-> "Positive"] : length \in 1..MaxModulusLen, digit \in {1, 3, 7, 9}}

\* the loop `for thread in 0..BRUTEFORCE_THREAD_COUNT` of rsa_bruteforce
submitted(modulus, thread_count) ==
    [job \in 1..BRUTEFORCE_THREAD_COUNT |-> starting_point(modulus, job - 1)]

InitPartition ==
    /\ a \in PartitionModuli
    /\ b \in {from_int(thread_count) : thread_count \in 1..MaxWorkers}
    /\ ~refused(a, value(b))
    /\ text = <<>>
    /\ op = "none"
    /\ res = ChonkerInt_new
    /\ answer = NoAnswer
    /\ request = NoRequest
    /\ NoPool
    /\ NoRsa

Submit == Answer("submit", Vector(submitted(a, value(b))))

NextPartition == Submit

SpecPartition == InitPartition /\ [][NextPartition]_vars

\* 10^k - 1, the number written with k nines
nines(k) == IF k = 0 THEN 0 ELSE 10 ^ k - 1

\* the step between the starting points for a modulus of the given length
step(length) == nines(length \div 2) \div BRUTEFORCE_THREAD_COUNT

\* 3 + i * step, raised by one when it is even
adjusted_start(length, i) ==
    LET start == 3 + i * step(length) IN IF start % 2 = 0 THEN start + 1 ELSE start

\* C27: for a requested worker count W exactly one job is submitted for each
\* worker index i in 0..W-1, job i starts at 3 + i * step raised by one when
\* that is even, and so every starting point is odd, for every modulus of up
\* to ten digits.
C27_OneOddStartPerWorker ==
    op = "submit" =>
        /\ Len(answer.list) = value(b)
        /\ \A job \in DOMAIN answer.list :
              /\ value(answer.list[job]) = adjusted_start(Len(a.digits), job - 1)
              /\ answer.list[job].digits[1] % 2 = 1


-----------------------------------------------------------------------------
(* The estimation specification: quotient_estimation_algorithm on the windows
   that div and rem present to it *)

MaxWindowDivisor == 130

\* the windows of div and rem: the first one holds the top digits of the
\* dividend, as many as the divisor has, and may be smaller than the divisor;
\* a later one is a remainder with one more digit of the dividend, and is
\* divided only when it is not smaller than the divisor
presented(window, divisor) ==
    /\ value(window) > 0
    /\ value(window) < RADIX * value(divisor)
    /\ \/ Len(window.digits) = Len(divisor.digits)
       \/ value(window) >= value(divisor)

InitEstimate ==
    /\ b \in {from_int(i) : i \in 1..MaxWindowDivisor}
    /\ a \in {from_int(i) : i \in 1..(RADIX * MaxWindowDivisor - 1)}
    /\ presented(a, b)
    /\ text = <<>>
    /\ op = "none"
    /\ res = ChonkerInt_new
    /\ answer = NoAnswer
    /\ request = NoRequest
    /\ NoPool
    /\ NoRsa

Estimate ==
    LET qr == quotient_estimation_algorithm(a, b)
    IN  Answer("quotient_estimation_algorithm",
               IF qr = PanicPair THEN Panicked_answer
                                 ELSE Vector(<<qr.quotient, qr.remainder>>))

NextEstimate == Estimate

SpecEstimate == InitEstimate /\ [][NextEstimate]_vars

\* the first value of `quotient`: the estimate from the leading digits of the
\* dividend and the divisor after both were multiplied by the coefficient
first_estimate(dividend_arg, divisor_arg) ==
    LET dividend_original == set_positive_sign(dividend_arg)
        divisor_original  == set_positive_sign(divisor_arg)
        coefficient == RADIX \div (divisor_original.digits[Len(divisor_original.digits)] + 1)
    IN  IF coefficient > 1
        THEN quotient_estimate(mul(dividend_original, from_int(coefficient)),
                               mul(divisor_original, from_int(coefficient)))
        ELSE quotient_estimate(dividend_original, divisor_original)

\* C28: for every divisor b > 0 and every window a < 10 * b that div or rem
\* presents, the first estimate of quotient_estimation_algorithm is at least
\* the true quotient digit a \div b and at most 2 more, so that the loop over
\* delta reduces it at most three times and never panics, and the pair
\* returned is the digit a \div b with the remainder a - (a \div b) * b
C28_EstimateWithinTwo ==
    op = "quotient_estimation_algorithm" =>
        LET digit    == value(a) \div value(b)
            estimate == first_estimate(a, b)
        IN  /\ estimate >= digit
            /\ estimate - digit <= 2
            /\ answer # Panicked_answer
            /\ answer.kind = "list"
            /\ estimate - value(answer.list[1]) <= 3
            /\ value(answer.list[1]) = digit
            /\ answer.list[1].digits # <<>>
            /\ value(answer.list[2]) = value(a) - digit * value(b)
            /\ canonical(answer.list[2])

\* the window 189 of a division by 19: the estimate 94 \div 9 = 10 is reduced
\* once and the digit 9 is returned with the remainder 18
C28_Witness ==
    /\ op = "quotient_estimation_algorithm"
    /\ a = from_int(189)
    /\ b = from_int(19)
    /\ first_estimate(a, b) = 10
    /\ answer = Vector(<<from_int(9), from_int(18)>>)


-----------------------------------------------------------------------------
(* The trial specification: is_prime_probabilistic with one trial; the odd
   target is a, and the base that new_rand_range_value draws is b *)

MaxTarget == 91

InitTrial ==
    /\ a \in {from_int(i) : i \in {n \in 5..MaxTarget : n % 2 = 1}}
    /\ b \in new_rand_range_value(from_int(2), sub(a, from_int(2)), "Positive")
    /\ text = <<>>
    /\ op = "none"
    /\ res = ChonkerInt_new
    /\ answer = NoAnswer
    /\ request = NoRequest
    /\ NoPool
    /\ NoRsa

\* is_prime_probabilistic(Some(1)) of a with the base b; where the trial is
\* reached, the answer carries d and s next to the value returned
Trial ==
    IF rem(a, from_int(2)) = ChonkerInt_new \/ rem(a, from_int(3)) = ChonkerInt_new
    THEN Answer("is_prime_probabilistic", Truth(FALSE))
    ELSE LET target_one == sub(a, from_int(1))
             ds         == miller_rabin_decompose(target_one, ChonkerInt_new)
         IN  Answer("is_prime_probabilistic",
                    [kind |-> "list",
                     flag |-> trial(b, ds.d, ds.s, a, target_one),
                     list |-> <<ds.d, ds.s>>])

NextTrial == Trial

SpecTrial == InitTrial /\ [][NextTrial]_vars

\* base to the power of exponent, modulo modulus
RECURSIVE power_mod(_, _, _)
power_mod(base, exponent, modulus) ==
    IF exponent = 0 THEN 1 % modulus
    ELSE (base * power_mod(base, exponent - 1, modulus)) % modulus

\* C29: for every odd n > 3 that reaches the decomposition step, the step ends
\* with d odd and n - 1 = 2^s * d, and the trial passes exactly when
\* x = base^d mod n is 1 or n - 1, or one of the at most s squarings of x is
\* n - 1
C29_DecompositionOdd ==
    (op = "is_prime_probabilistic" /\ answer.kind = "list") =>
        LET n == value(a)
            d == value(answer.list[1])
            s == value(answer.list[2])
            x == power_mod(value(b), d, n)
        IN  /\ d % 2 = 1
            /\ n - 1 = (2 ^ s) * d
            /\ answer.flag <=> \/ x = 1
                               \/ x = n - 1
                               \/ \E k \in 1..s : power_mod(x, 2 ^ k, n) = n - 1


-----------------------------------------------------------------------------
(* Further properties of the cipher *)

\* the smaller prime of a modulus that is the product of two primes of
\* PrimeLength digits
smaller_prime(modulus) ==
    CHOOSE p \in (10 ^ (PrimeLength - 1))..(10 ^ PrimeLength - 1) :
        /\ modulus % p = 0
        /\ \A smaller \in (10 ^ (PrimeLength - 1))..(p - 1) : modulus % smaller # 0

\* Euler's totient of such a modulus
totient(modulus) ==
    (smaller_prime(modulus) - 1) * (modulus \div smaller_prime(modulus) - 1)

\* C30: the public exponent e of a generated key pair satisfies 1 < e < phi,
\* is neither of the two primes, and is coprime to phi; the boundary values
\* e = 1 and e = phi are never returned
C30_ExponentInRange ==
    LET e   == value(key_pair.public_key_e)
        n   == value(key_pair.public_key_n)
        phi == totient(n)
    IN  /\ 1 < e
        /\ e < phi
        /\ e # smaller_prime(n)
        /\ e # n \div smaller_prime(n)
        /\ greatest_common_divisor(e, phi) = 1

====
